---- MODULE Spec2Model ----
(***************************************************************************)
(* A model of icalendar-searcher: the Searcher query object and its        *)
(* check_component pipeline (normalization, kind flags, completion filter, *)
(* time-range match, property filters, recurrence expansion).              *)
(*                                                                         *)
(* The repository holds two Searcher classes: the one of __init__.py,      *)
(* which "from icalendar_searcher import Searcher" yields, and the one of  *)
(* searcher.py, built on the FilterMixin of filters.py.  Both are          *)
(* modelled; the field "module" of a Searcher tells which class it is an   *)
(* instance of, and the methods in which the two classes differ have one   *)
(* definition per class.                                                   *)
(*                                                                         *)
(* Instants are integers (seconds since the epoch).  Text values are       *)
(* sequences of one-character strings, so that substring search and case   *)
(* folding are computed, not assumed.                                      *)
(***************************************************************************)
EXTENDS Integers, Sequences, FiniteSets, TLC

VARIABLES searcher, last, prev

vars == <<searcher, last, prev>>

(***************************************************************************)
(* Bounds of the model.                                                    *)
(***************************************************************************)
\* Largest instant of the enumerated components and query windows.
MaxTime == 4
\* Largest number of property filters registered on one Searcher.
MaxFilters == 2
\* Number of occurrences the recurrence rule of a master generates.
MaxCount == 3
\* Largest number of sub-components of the inputs enumerated in every shape.
MaxSubs == 2
\* Largest day, counted from 1970-01-01, of the components of SpecDay.
MaxDay == 1
\* REPEAT count of the repeating alarm of SpecAlarm.
MaxRepeat == 2
\* Largest number of sort keys registered with a Searcher.
MaxSortKeys == 2

(***************************************************************************)
(* Program constants.                                                      *)
(***************************************************************************)
\* None for an instant-valued field (start: datetime = None).
NoTime == -1
\* recurring_ical_events.DATE_MIN_DT, 1970-01-01, as an instant.
DateMin == 0
\* recurring_ical_events.DATE_MAX_DT, 2038-01-01, as an instant.
DateMax == 2145916800
\* timedelta(days=1) in seconds.
Day == 86400
\* timedelta(seconds=1).
OneSecond == 1

Tri == {"None", "True", "False"}

\* Python truthiness of a tri-state flag: None and False are falsy.
Truthy(x) == x = "True"

Kinds == {"VEVENT", "VTODO", "VJOURNAL"}

(***************************************************************************)
(* Date and date-time property values of a component.                      *)
(***************************************************************************)
NoDt == [k |-> "none", v |-> 0]
DT(t) == [k |-> "datetime", v |-> t]
D(n) == [k |-> "date", v |-> n]

\* A variant of NormalizeDt that takes the day number of a date for its
\* instant; EventDefaultEnd does not hold of it.
NormalizeDtOfDayNumber(x) == IF x.k = "none" THEN NoTime ELSE x.v

\* utils._normalize_dt: None stays None, a date becomes midnight of that
\* day, a datetime keeps its instant.
NormalizeDt(x) ==
    CASE x.k = "none" -> NoTime
      [] x.k = "date" -> x.v * Day
      [] OTHER -> x.v

\* The instant of a bound of the Searcher that check_component has
\* normalized, NoTime for None.
Instant(x) == IF x.k = "none" THEN NoTime ELSE x.v

(***************************************************************************)
(* Text.                                                                   *)
(***************************************************************************)
NoText == <<>>

LowerChar(c) ==
    CASE c = "A" -> "a"
      [] c = "B" -> "b"
      [] c = "C" -> "c"
      [] OTHER -> c

\* str.lower()
Lower(s) == [i \in 1..Len(s) |-> LowerChar(s[i])]

\* needle in haystack
IsSubstring(needle, haystack) ==
    \E i \in 0..(Len(haystack) - Len(needle)) :
        \A j \in 1..Len(needle) : haystack[i + j] = needle[j]

\* collation._binary_contains
BinaryContains(needle, haystack) == IsSubstring(needle, haystack)

\* collation._case_insensitive_contains
CaseInsensitiveContains(needle, haystack) ==
    IsSubstring(Lower(needle), Lower(haystack))

\* collation.get_collation_function, for the two collations that need no
\* external library.
CollationContains(cs, needle, haystack) ==
    IF cs THEN BinaryContains(needle, haystack)
          ELSE CaseInsensitiveContains(needle, haystack)

(***************************************************************************)
(* Components.                                                             *)
(***************************************************************************)
\* The PRIORITY of a component that has none.
NoPriority == -1

\* A component with a UID and nothing else.
Comp(name, uid) ==
    [name |-> name, uid |-> uid, rrule |-> FALSE, rid |-> NoDt,
     dtstart |-> NoDt, dtend |-> NoDt, created |-> NoDt, completed |-> NoDt,
     status |-> "", summary |-> NoText, location |-> NoText, cats |-> {},
     alarms |-> <<>>, priority |-> NoPriority]

\* A VALARM sub-component.  trigger is NoDt when TRIGGER is absent, a
\* datetime or date for an absolute trigger, and [k |-> "delta"] for a
\* timedelta; related is the RELATED parameter ("" when absent); repeat is
\* the REPEAT count and duration the DURATION in seconds, each with a flag
\* telling whether the property is present.
Alarm(trigger, related) ==
    [trigger |-> trigger, related |-> related,
     has_repeat |-> FALSE, repeat |-> 0, has_duration |-> FALSE, duration |-> 0]

Delta(n) == [k |-> "delta", v |-> n]

IsTimezone(c) == c.name = "VTIMEZONE"

\* "RRULE" in component
HasRRule(c) == c.rrule
\* "RECURRENCE-ID" in component
HasRecurrenceId(c) == c.rid.k # "none"

\* component.start of the calendar object model: DTSTART, or the
\* "incomplete" signal (NoDt) when it is absent.
CompStart(c) == c.dtstart

\* component.end of the calendar object model: DTEND (DUE for a task), else
\* for an event or a task the start (plus one day when the start is a date),
\* or the "incomplete" signal (NoDt).
CompEnd(c) ==
    IF c.dtend.k # "none" THEN c.dtend
    ELSE IF c.name \in {"VEVENT", "VTODO"} /\ c.dtstart.k = "datetime" THEN c.dtstart
    ELSE IF c.name \in {"VEVENT", "VTODO"} /\ c.dtstart.k = "date" THEN D(c.dtstart.v + 1)
    ELSE NoDt

(***************************************************************************)
(* The Searcher.                                                           *)
(***************************************************************************)
\* The two modules that define a Searcher class.
InitPy == "__init__"
SearcherPy == "searcher"
Modules == {InitPy, SearcherPy}

NewSearcher ==
    [module |-> SearcherPy,
     todo |-> "None", event |-> "None", journal |-> "None",
     start |-> NoDt, end |-> NoDt,
     alarm_start |-> NoDt, alarm_end |-> NoDt,
     include_completed |-> "None", expand |-> FALSE,
     filters |-> <<>>, sort_keys |-> <<>>]

(***************************************************************************)
(* Inputs of check_component: a calendar holding sub-components, a bare    *)
(* component, or a wrapper exposing a calendar as icalendar_instance.      *)
(***************************************************************************)
Calendar(subs) == [form |-> "calendar", subs |-> subs]
Bare(c) == [form |-> "component", subs |-> <<c>>]
Wrapped(subs) == [form |-> "wrapper", subs |-> subs]

\* Searcher._unwrap: follow the accessor of a wrapper, put a bare component
\* into a calendar of its own; the result is the calendar's sub-components.
Unwrap(input) ==
    CASE input.form = "wrapper" -> input.subs
      [] input.form = "component" -> <<input.subs[1]>>
      [] OTHER -> input.subs

\* Outcomes of a call.
Raise(e) == [kind |-> "raise", err |-> e, items |-> <<>>]
Returned(kind, items) == [kind |-> kind, err |-> "", items |-> items]

\* The structural check of a recurrence set of more than one component,
\* in searcher.py.
ValidRecurrenceSet(components) ==
    /\ HasRRule(components[1]) \/ HasRecurrenceId(components[1])
    /\ \A i \in 2..Len(components) : HasRecurrenceId(components[i])
    /\ ~ \E i \in 2..Len(components) : HasRRule(components[i])

\* The same check in __init__.py: the first component must carry the rule.
ValidRecurrenceSetInit(components) ==
    /\ HasRRule(components[1])
    /\ \A i \in 2..Len(components) : HasRecurrenceId(components[i])
    /\ ~ \E i \in 2..Len(components) : HasRRule(components[i])

\* The structural check of the class a Searcher is an instance of.
ValidSet(module, components) ==
    IF module = InitPy THEN ValidRecurrenceSetInit(components)
    ELSE ValidRecurrenceSet(components)

\* The UID check: no component differs in UID from the first.
SameUid(components) ==
    ~ \E i \in 1..Len(components) : components[i].uid # components[1].uid

\* The sub-components that are no timezone definitions, in order.
WithoutTimezones(subs) == SelectSeq(subs, LAMBDA x : ~IsTimezone(x))

\* The checks of _validate_and_normalize_component on the component list.
Validate(module, components) ==
    IF Len(components) = 0 THEN Raise("ValueError")
    ELSE IF Len(components) > 1 /\ ~ValidSet(module, components)
         THEN Raise("ValueError")
    ELSE IF ~SameUid(components) THEN Raise("ValueError")
    ELSE Returned("list", components)

\* Searcher._validate_and_normalize_component
ValidateAndNormalize(module, input) ==
    Validate(module, WithoutTimezones(Unwrap(input)))

(***************************************************************************)
(* Defaults resolved, and stored on the Searcher, by check_component.      *)
(***************************************************************************)
\* A variant of ResolveIncludeCompleted whose default does not look at the
\* todo flag; IncludeCompletedDefault does not hold of it.
ResolveIncludeCompletedTrue(s) ==
    IF s.include_completed = "None"
    THEN [s EXCEPT !.include_completed = "True"]
    ELSE s

\* A variant of ResolveIncludeCompleted that derives the value on every
\* call, set or not; SameCallSameOutcome does not hold of it.
ResolveIncludeCompletedAlways(s) ==
    [s EXCEPT !.include_completed = IF Truthy(s.todo) THEN "False" ELSE "True"]

\* include_completed defaults to "not todo" when it is None.
ResolveIncludeCompleted(s) ==
    IF s.include_completed = "None"
    THEN [s EXCEPT !.include_completed =
                       IF Truthy(s.todo) THEN "False" ELSE "True"]
    ELSE s

\* A variant of DefaultFlag under which an unset kind flag always counts as
\* true; KindFlagsRule does not hold of it.
DefaultFlagAlwaysTrue(s) == "True"

\* The value an unset kind flag takes: False when some flag is true, else True.
DefaultFlag(s) ==
    IF Truthy(s.todo) \/ Truthy(s.event) \/ Truthy(s.journal)
    THEN "False" ELSE "True"

\* A flag with None replaced by d.
FlagOr(x, d) == IF x = "None" THEN d ELSE x

\* The three kind flags with None replaced by the default.
ResolveKindFlags(s) ==
    [s EXCEPT !.todo = FlagOr(s.todo, DefaultFlag(s)),
              !.event = FlagOr(s.event, DefaultFlag(s)),
              !.journal = FlagOr(s.journal, DefaultFlag(s))]

\* comptypesu: the names of the kinds whose flag is true.
AcceptedKinds(s) ==
    {k \in Kinds : \/ k = "VTODO" /\ Truthy(s.todo)
                   \/ k = "VEVENT" /\ Truthy(s.event)
                   \/ k = "VJOURNAL" /\ Truthy(s.journal)}

\* all(getattr(self, x) for x in comptypesl)
AllKindFlags(s) == Truthy(s.todo) /\ Truthy(s.event) /\ Truthy(s.journal)

(***************************************************************************)
(* _check_completed_filter                                                 *)
(***************************************************************************)
\* component.get("STATUS", "NEEDS-ACTION")
StatusOf(c) == IF c.status = "" THEN "NEEDS-ACTION" ELSE c.status

\* FilterMixin._check_completed_filter of filters.py
CheckCompletedFilterMixin(s, c) ==
    IF Truthy(s.include_completed) THEN TRUE
    ELSE IF c.name # "VTODO" THEN TRUE
    ELSE IF StatusOf(c) \in {"COMPLETED", "CANCELLED"} THEN FALSE
    ELSE IF c.completed.k # "none" THEN FALSE
    ELSE TRUE

\* Searcher._check_completed_filter of __init__.py
CheckCompletedFilterInit(s, c) ==
    IF Truthy(s.include_completed) THEN TRUE
    ELSE \/ c.name # "VTODO"
         \/ StatusOf(c) = "NEEDS-ACTION" /\ c.completed.k = "none"

\* self._check_completed_filter(c)
CheckCompletedFilter(s, c) ==
    IF s.module = InitPy THEN CheckCompletedFilterInit(s, c)
    ELSE CheckCompletedFilterMixin(s, c)

(***************************************************************************)
(* FilterMixin._check_range.  The result is "True", "False", or the name   *)
(* of the exception raised.                                                *)
(***************************************************************************)
\* An interval; NoTime stands for None.
Interval(start, end) == [start |-> start, end |-> end]

\* VTODO: a start or an end that is missing takes the value of the other.
TodoEither(iv) ==
    Interval(IF iv.end # NoTime /\ iv.start = NoTime THEN iv.end ELSE iv.start,
             IF iv.start # NoTime /\ iv.end = NoTime THEN iv.start ELSE iv.end)

\* VTODO: with no start, CREATED and COMPLETED stand in when present.
TodoFallback(c, iv) ==
    IF iv.start # NoTime THEN iv
    ELSE Interval(IF c.created.k # "none" THEN NormalizeDt(c.created) ELSE iv.start,
                  IF c.completed.k # "none" THEN NormalizeDt(c.completed) ELSE iv.end)

\* VTODO: an end before the start swaps the two.
TodoSwap(iv) ==
    IF iv.end # NoTime /\ iv.start # NoTime /\ iv.end < iv.start
    THEN Interval(iv.end, iv.start) ELSE iv

\* VTODO: no timestamp at all is "any or all days".
TodoUniversal(iv) ==
    IF iv.end = NoTime /\ iv.start = NoTime THEN Interval(DateMin, DateMax) ELSE iv

\* comp_start and comp_end per kind, from the normalized component.start
\* and component.end.
KindInterval(c, iv) ==
    CASE c.name = "VEVENT" ->
           Interval(iv.start, IF iv.end = NoTime THEN iv.start ELSE iv.end)
      [] c.name = "VTODO" ->
           TodoUniversal(TodoSwap(TodoFallback(c, TodoEither(iv))))
      [] OTHER ->
           \* VJOURNAL: comp_start is a datetime once normalized, so the
           \* journal ends where it starts.
           Interval(iv.start, iv.start)

\* comp_start and comp_end as _check_range computes them, before the
\* widening of a zero-length interval.
CompInterval(c) ==
    KindInterval(c, Interval(NormalizeDt(CompStart(c)), NormalizeDt(CompEnd(c))))

\* A variant of Widened that leaves an interval without length as it is;
\* RangeMatchRule does not hold of it.
NotWidened(iv) == iv.end

\* comp_end, one second later when the interval has no length.
Widened(iv) == IF iv.start = iv.end THEN iv.end + OneSecond ELSE iv.end

\* The closing comparison of _check_range, on comp_start and the widened
\* comp_end.  Comparing an instant with None raises TypeError.
RangeTest(start, end, comp_start, comp_end) ==
    IF start # NoTime /\ end # NoTime /\ comp_end # NoTime
    THEN IF ~(start < comp_end) THEN "False"
         ELSE IF comp_start = NoTime THEN "TypeError"
         ELSE IF end > comp_start THEN "True" ELSE "False"
    ELSE IF end # NoTime
    THEN IF comp_start = NoTime THEN "TypeError"
         ELSE IF end > comp_start THEN "True" ELSE "False"
    ELSE IF start # NoTime /\ comp_end # NoTime
    THEN IF start < comp_end THEN "True" ELSE "False"
    ELSE "True"

\* The closing comparison on the interval of a component.
RangeOf(s, iv) == RangeTest(Instant(s.start), Instant(s.end), iv.start, Widened(iv))

CheckRange(s, c) ==
    IF c.name = "VEVENT" /\ CompStart(c).k = "none" THEN "IncompleteComponent"
    ELSE IF c.name = "VJOURNAL" /\ CompStart(c).k = "none" THEN "False"
    ELSE RangeOf(s, CompInterval(c))

(***************************************************************************)
(* Property filters.  The insertion-ordered maps _property_operator,       *)
(* _property_filters and the per-key case setting are one sequence of      *)
(* records, in the order the keys were first registered: text is the       *)
(* expected value of a text key or of "category", names the expected       *)
(* category names of "categories" (with, in text, the string they were     *)
(* split from when a string was given), cs the case sensitivity.           *)
(***************************************************************************)
Operators == {"contains", "undef", "=="}

Filter(key, op, text, names, cs) ==
    [key |-> key, op |-> op, text |-> text, names |-> names, cs |-> cs]

IsCategoryKey(key) == key \in {"categories", "category"}

KeyIndex(filters, key) ==
    IF \E i \in 1..Len(filters) : filters[i].key = key
    THEN CHOOSE i \in 1..Len(filters) : filters[i].key = key
    ELSE 0

RECURSIVE SplitNames(_, _, _)
\* vCategory.from_ical / str.split(","): the names between the commas of
\* text from position i on, cur being the name read so far.
SplitNames(text, i, cur) ==
    IF i > Len(text) THEN {cur}
    ELSE IF text[i] = "," THEN {cur} \cup SplitNames(text, i + 1, <<>>)
    ELSE SplitNames(text, i + 1, Append(cur, text[i]))

\* "," in name
HasComma(name) == \E i \in 1..Len(name) : name[i] = ","

\* The value add_property_filter stores: a string given for "categories"
\* is split on commas into the names of a vCategory; any other value is
\* stored as it is given.
StoredFilter(f, cs) ==
    IF f.key = "categories" /\ f.text # NoText
    THEN [f EXCEPT !.cs = cs, !.names = SplitNames(f.text, 1, <<>>)]
    ELSE [f EXCEPT !.cs = cs]

\* The expected names of a "categories" filter as _check_property_filters
\* prepares them: a vCategory of one name that holds a comma is split, one
\* of several names becomes the set of its names.
FilterNames(f) ==
    IF Cardinality(f.names) = 1 /\ \A n \in f.names : HasComma(n)
    THEN UNION {SplitNames(n, 1, <<>>) : n \in f.names}
    ELSE f.names

\* Searcher.add_property_filter with a supported operator: a new key is
\* appended, a known key keeps its place; "undef" stores no expected value
\* and leaves a value stored earlier for the key in place.  The method of
\* __init__.py has no case_sensitive parameter.
AddPropertyFilterTo(s, f) ==
    LET i == KeyIndex(s.filters, f.key)
        cs == IF s.module = InitPy THEN TRUE ELSE f.cs
        stored == IF f.op # "undef" THEN StoredFilter(f, cs)
                  ELSE IF i = 0 THEN Filter(f.key, f.op, NoText, {}, cs)
                  ELSE [s.filters[i] EXCEPT !.op = f.op, !.cs = cs]
    IN  IF i = 0 THEN [s EXCEPT !.filters = Append(s.filters, stored)]
        ELSE [s EXCEPT !.filters[i] = stored]

\* The value of the property a filter key names, as text.
PropText(c, key) ==
    CASE key = "SUMMARY" -> c.summary
      [] key = "LOCATION" -> c.location
      [] OTHER -> NoText

\* key in component, for the text properties and for DTEND (whose value
\* no filter of the model reads).
KeyIn(c, key) ==
    IF key = "DTEND" THEN c.dtend.k # "none" ELSE PropText(c, key) # NoText

\* comp_key in component
PropPresent(c, key) ==
    IF IsCategoryKey(key) THEN c.cats # {} ELSE KeyIn(c, key)

\* Equality of two names under the case setting.
NameEq(cs, a, b) == IF cs THEN a = b ELSE Lower(a) = Lower(b)

\* A variant of CategoriesContain that is content with one expected name
\* among the categories; CategoriesContainsRule does not hold of it.
CategoriesContainOne(f, c) ==
    \E fv \in FilterNames(f) : \E cv \in c.cats : NameEq(f.cs, fv, cv)

\* "contains" on "categories": every expected name is a category of the
\* component.
CategoriesContain(f, c) ==
    \A fv \in FilterNames(f) : \E cv \in c.cats : NameEq(f.cs, fv, cv)

\* A variant of CategoriesEqual that does not compare the sizes;
\* CategoriesEqualRule does not hold of it.
CategoriesEqualUnsized(f, c) ==
    \A fv \in FilterNames(f) : \E cv \in c.cats : NameEq(f.cs, fv, cv)

\* "==" on "categories": as many expected names as categories, and every
\* expected name is a category of the component.
CategoriesEqual(f, c) ==
    /\ Cardinality(FilterNames(f)) = Cardinality(c.cats)
    /\ \A fv \in FilterNames(f) : \E cv \in c.cats : NameEq(f.cs, fv, cv)

\* One turn of the loop of _check_property_filters in filters.py: "True"
\* and "False" are returned from the method at once, "next" goes on to the
\* following filter.
FilterStep(f, c, skip_undef) ==
    CASE f.op = "undef" ->
           IF skip_undef THEN "next"
           ELSE IF IsCategoryKey(f.key)
                THEN (IF c.cats # {} THEN "False" ELSE "next")
           ELSE IF PropPresent(c, f.key) THEN "False" ELSE "next"
      [] f.op = "contains" ->
           IF ~PropPresent(c, f.key) THEN "False"
           ELSE IF f.key = "category"
                THEN (IF \E cat \in c.cats : CollationContains(f.cs, f.text, cat)
                      THEN "True" ELSE "False")
           ELSE IF f.key = "categories"
                THEN (IF CategoriesContain(f, c) THEN "True" ELSE "False")
           ELSE IF ~CollationContains(f.cs, f.text, PropText(c, f.key))
                THEN "False" ELSE "next"
      [] OTHER ->
           IF ~PropPresent(c, f.key) THEN "False"
           ELSE IF f.key = "category"
                THEN (IF \E cat \in c.cats : NameEq(f.cs, f.text, cat)
                      THEN "True" ELSE "False")
           ELSE IF f.key = "categories"
                THEN (IF CategoriesEqual(f, c) THEN "True" ELSE "False")
           ELSE IF PropText(c, f.key) = f.text THEN "True"
           ELSE IF NameEq(f.cs, PropText(c, f.key), f.text) THEN "True"
           ELSE "False"

\* The loop after one turn: the value returned, or the rest of the loop.
AfterStep(r, rest) == IF r = "next" THEN rest ELSE r = "True"

\* One turn of the loop of _check_property_filters in __init__.py, which
\* knows text keys only: "contains" folds the case of both sides, "=="
\* compares the values as they are.
FilterStepInit(f, c) ==
    CASE f.op = "undef" ->
           IF KeyIn(c, f.key) THEN "False" ELSE "next"
      [] f.op = "contains" ->
           IF PropText(c, f.key) = NoText THEN "False"
           ELSE IF ~IsSubstring(Lower(f.text), Lower(PropText(c, f.key)))
                THEN "False" ELSE "next"
      [] OTHER ->
           IF PropText(c, f.key) = NoText THEN "False"
           ELSE IF PropText(c, f.key) # f.text THEN "False" ELSE "next"

\* One turn of the loop of the class a Searcher is an instance of.
Step(module, f, c, skip_undef) ==
    IF module = InitPy THEN FilterStepInit(f, c) ELSE FilterStep(f, c, skip_undef)

RECURSIVE FiltersFrom(_, _, _, _, _)
\* The loop over the registered filters from the i-th on.
FiltersFrom(module, filters, i, c, skip_undef) ==
    IF i > Len(filters) THEN TRUE
    ELSE AfterStep(Step(module, filters[i], c, skip_undef),
                   FiltersFrom(module, filters, i + 1, c, skip_undef))

\* self._check_property_filters(c, skip_undef)
CheckPropertyFilters(s, c, skip_undef) ==
    FiltersFrom(s.module, s.filters, 1, c, skip_undef)

(***************************************************************************)
(* FilterMixin._check_alarm_range                                          *)
(***************************************************************************)
\* A variant of AlarmAnchor that counts from the start whatever RELATED
\* says; AlarmAnchorRule does not hold of it.
AlarmAnchorStart(a, comp_start, comp_end) == comp_start

\* The instant a relative trigger counts from: comp_end for RELATED=END
\* when an end is known, else comp_start when known, else none.
AlarmAnchor(a, comp_start, comp_end) ==
    IF a.related = "END" /\ comp_end # NoTime THEN comp_end ELSE comp_start

\* alarm_time
AlarmTime(a, comp_start, comp_end) ==
    IF a.trigger.k = "delta"
    THEN AlarmAnchor(a, comp_start, comp_end) + a.trigger.v
    ELSE NormalizeDt(a.trigger)

\* A variant of InAlarmRange that lets a fire time at alarm_end pass;
\* AlarmMatchRule does not hold of it.
InAlarmRangeClosed(s, t) ==
    IF s.alarm_start.k # "none" /\ s.alarm_end.k # "none"
    THEN Instant(s.alarm_start) <= t /\ t <= Instant(s.alarm_end)
    ELSE IF s.alarm_start.k # "none" THEN t >= Instant(s.alarm_start)
    ELSE IF s.alarm_end.k # "none" THEN t <= Instant(s.alarm_end)
    ELSE FALSE

\* The window test on one fire time.
InAlarmRange(s, t) ==
    IF s.alarm_start.k # "none" /\ s.alarm_end.k # "none"
    THEN Instant(s.alarm_start) <= t /\ t < Instant(s.alarm_end)
    ELSE IF s.alarm_start.k # "none" THEN t >= Instant(s.alarm_start)
    ELSE IF s.alarm_end.k # "none" THEN t < Instant(s.alarm_end)
    ELSE FALSE

\* A variant of FiresAt that tests the first fire time only;
\* AlarmRepeatRule does not hold of it.
FiresAtFirst(s, a, t) == InAlarmRange(s, t)

\* An alarm with fire time t: every repetition when REPEAT and a non-zero
\* DURATION are given, else the fire time itself.
FiresAt(s, a, t) ==
    IF a.has_repeat /\ a.has_duration /\ a.duration # 0
    THEN \E i \in 0..a.repeat : InAlarmRange(s, t + a.duration * i)
    ELSE InAlarmRange(s, t)

\* One turn of the loop over the alarms: does this alarm return True.
AlarmFires(s, a, comp_start, comp_end) ==
    IF a.trigger.k = "none" THEN FALSE
    ELSE IF a.trigger.k = "delta" /\ AlarmAnchor(a, comp_start, comp_end) = NoTime
    THEN FALSE
    ELSE FiresAt(s, a, AlarmTime(a, comp_start, comp_end))

CheckAlarmRange(s, c) ==
    \E i \in 1..Len(c.alarms) :
        AlarmFires(s, c.alarms[i], NormalizeDt(CompStart(c)), NormalizeDt(CompEnd(c)))

(***************************************************************************)
(* The recurrence expansion collaborator (recurring_ical_events), as the   *)
(* specification describes it: the occurrences of the given components     *)
(* that are of one of the given kinds and meet the closed interval         *)
(* [start, end], each carrying RECURRENCE-ID and no RRULE, an override     *)
(* standing in place of the occurrence it replaces.  The rule of a master  *)
(* is "every RulePeriod seconds, MaxCount times".                          *)
(***************************************************************************)
\* Distance between two occurrences of a master.
RulePeriod == 2

OccurrenceStart(m, k) == NormalizeDt(m.dtstart) + k * RulePeriod

\* The expander gives the occurrences of an all-day event without DTEND a
\* computed one.
ComputesEnd(m) ==
    m.name = "VEVENT" /\ m.dtstart.k = "date" /\ m.dtend.k = "none"

\* An occurrence of a master starting at t: the master's properties, moved,
\* and the computed end, one day after the start.
OccurrenceAt(m, t) ==
    [m EXCEPT !.rrule = FALSE, !.rid = DT(t), !.dtstart = DT(t),
              !.dtend = IF ComputesEnd(m) THEN DT(t + Day)
                        ELSE IF m.dtend.k = "none" THEN NoDt
                        ELSE DT(t + NormalizeDt(m.dtend) - NormalizeDt(m.dtstart))]

Occurrence(m, k) == OccurrenceAt(m, OccurrenceStart(m, k))

IsOverride(c) == ~HasRRule(c) /\ HasRecurrenceId(c)

\* The positions of the overrides that replace occurrence k of master m.
OverridesAt(comps, m, k) ==
    {i \in 1..Len(comps) : /\ IsOverride(comps[i])
                           /\ comps[i].uid = m.uid
                           /\ NormalizeDt(comps[i].rid) = OccurrenceStart(m, k)}

\* The positions of the overrides that replace an occurrence of a master.
Replacing(comps) ==
    {i \in 1..Len(comps) :
        \E j \in 1..Len(comps), k \in 0..(MaxCount - 1) :
            HasRRule(comps[j]) /\ i \in OverridesAt(comps, comps[j], k)}

\* Occurrence k of master m, or the override given for it.
Pick(comps, at, m, k) ==
    IF at # {} THEN comps[CHOOSE i \in at : TRUE] ELSE Occurrence(m, k)

\* The occurrences of a working set, before the restriction to kinds and
\* interval: per master every occurrence or its override, then the
\* overrides that replace no occurrence of a master in the set, then the
\* components that do not recur.
SeriesOf(comps) ==
    {Pick(comps, OverridesAt(comps, comps[j], k), comps[j], k) :
        j \in {j \in 1..Len(comps) : HasRRule(comps[j])}, k \in 0..(MaxCount - 1)}
    \cup {comps[i] : i \in {i \in 1..Len(comps) : IsOverride(comps[i])} \ Replacing(comps)}
    \cup {comps[i] : i \in {i \in 1..Len(comps) :
                               ~HasRRule(comps[i]) /\ ~HasRecurrenceId(comps[i])}}

\* The start and end instants the expander sees for an occurrence.
OccInterval(o) ==
    Interval(NormalizeDt(o.dtstart),
             IF o.dtend.k = "none" THEN NormalizeDt(o.dtstart) ELSE NormalizeDt(o.dtend))

\* An occurrence of S that starts no later than any other.
Earliest(S) ==
    CHOOSE x \in S : \A y \in S : OccInterval(x).start <= OccInterval(y).start

RECURSIVE SortedFrom(_, _)
SortedFrom(x, S) == <<x>> \o (IF S = {x} THEN <<>> ELSE SortedFrom(Earliest(S \ {x}), S \ {x}))

\* The occurrences in the order of their starts.
SortedByStart(S) == IF S = {} THEN <<>> ELSE SortedFrom(Earliest(S), S)

\* recurring_ical_events.of(cal, components=kinds).between(start, end)
Between(comps, kinds, start, end) ==
    SortedByStart({o \in SeriesOf(comps) :
                      /\ o.name \in kinds
                      /\ OccInterval(o).start <= end
                      /\ OccInterval(o).end >= start})

\* Searcher._expand_recurrences: unset bounds default, locally, to the
\* smallest and largest instant.
ExpandRecurrences(s, recurrence_set, comptypesu) ==
    Between(recurrence_set, comptypesu,
            IF s.start.k # "none" THEN Instant(s.start) ELSE DateMin,
            IF s.end.k # "none" THEN Instant(s.end) ELSE DateMax)

(***************************************************************************)
(* Iterables.  A list is [isiter |-> FALSE]; a generator is                *)
(* [isiter |-> TRUE] with the items it will yield and, if evaluating a     *)
(* later item raises, the exception that ends it.                          *)
(***************************************************************************)
List(items) == [isiter |-> FALSE, items |-> items, err |-> ""]
Generator(items, err) == [isiter |-> TRUE, items |-> items, err |-> err]

\* itertools.tee(g): two iterators over one source, each with the queue of
\* the items the other has already pulled.
Tee(g) == [src |-> g.items, err |-> g.err, check |-> <<>>, result |-> <<>>]

\* next(check_it): an item of its queue, else the next item of the source,
\* which is queued for result_it as well.
NextCheck(t) ==
    IF t.check # <<>>
    THEN [ok |-> TRUE, tee |-> [t EXCEPT !.check = Tail(t.check)]]
    ELSE IF t.src # <<>>
    THEN [ok |-> TRUE,
          tee |-> [t EXCEPT !.src = Tail(t.src),
                            !.result = Append(t.result, Head(t.src))]]
    ELSE [ok |-> FALSE, tee |-> t]

\* A variant of ResultItems that yields what is left of the source after
\* the peek; ExpandedSurvivors does not hold of it.
ResultItemsOfSource(t) == t.src

\* What result_it yields from now on.
ResultItems(t) == t.result \o t.src

\* utils._iterable_or_false
\* The try block of _iterable_or_false, on the result of next(check_it):
\* result_it is returned when there was an item, False on StopIteration; an
\* exception of the generator passes through.
AfterPeek(g, peek) ==
    IF peek.ok
    THEN [kind |-> "iter", err |-> g.err, items |-> ResultItems(peek.tee)]
    ELSE IF g.err # "" THEN Raise(g.err)
    ELSE Returned("false", <<>>)

IterableOrFalse(g) ==
    IF ~g.isiter
    THEN (IF g.items = <<>> THEN Returned("false", <<>>)
          ELSE Returned("list", g.items))
    ELSE AfterPeek(g, NextCheck(Tee(g)))

\* bool(return value)
TruthyOutcome(out) == out.kind \in {"list", "iter"}

(***************************************************************************)
(* Searcher.check_component                                                *)
(***************************************************************************)
\* The first loop of check_component: every bound that is set is replaced
\* by its normalized value.
NormalizeBound(x) == IF x.k = "none" THEN x ELSE DT(NormalizeDt(x))

NormalizeBounds(s) ==
    [s EXCEPT !.start = NormalizeBound(s.start), !.end = NormalizeBound(s.end),
              !.alarm_start = NormalizeBound(s.alarm_start),
              !.alarm_end = NormalizeBound(s.alarm_end)]

\* Some bound is set and is no datetime: the loop of __init__.py raises
\* NotImplementedError on it.  The bounds it replaced before keep their
\* instants.
HasDateBound(s) ==
    "date" \in {s.start.k, s.end.k, s.alarm_start.k, s.alarm_end.k}

\* _expand_recurrences of __init__.py stores the bounds it defaults on
\* the Searcher; that of searcher.py keeps them local.
StoreExpansionBounds(s) ==
    IF s.module # InitPy THEN s
    ELSE [s EXCEPT !.start = IF s.start.k # "none" THEN s.start ELSE DT(DateMin),
                   !.end = IF s.end.k # "none" THEN s.end ELSE DT(DateMax)]

\* The Searcher after the expansion step of check_component.
AfterExpansion(s, orig, ignore) ==
    IF ~ignore /\ HasRRule(orig[1]) THEN StoreExpansionBounds(s) ELSE s

HasRange(s) == s.start.k # "none" \/ s.end.k # "none"

HasAlarmRange(s) == s.alarm_start.k # "none" \/ s.alarm_end.k # "none"

\* The filters after the range filter, on one candidate.
KeepStatic(s, x, ignore) ==
    IF ~AllKindFlags(s) /\ x.name \notin AcceptedKinds(s) THEN "False"
    ELSE IF ~CheckCompletedFilter(s, x) THEN "False"
    ELSE IF s.filters # <<>> /\ ~CheckPropertyFilters(s, x, FALSE) THEN "False"
    ELSE IF ~ignore /\ HasAlarmRange(s) /\ ~CheckAlarmRange(s, x) THEN "False"
    ELSE "True"

\* A candidate the range filter answered r for.
AfterRange(r, s, x, ignore) == IF r # "True" THEN r ELSE KeepStatic(s, x, ignore)

\* What the chain of filtering generators does with one candidate: "True"
\* keeps it, "False" drops it, anything else is the exception raised.
KeepItem(s, x, ignore) ==
    IF ~ignore /\ HasRange(s) THEN AfterRange(CheckRange(s, x), s, x, ignore)
    ELSE KeepStatic(s, x, ignore)

\* The generator that yields x, if r keeps it, and then what rest yields;
\* it ends with the exception when evaluating x raises.
Chain(r, x, rest) ==
    IF r \notin {"True", "False"} THEN Generator(<<>>, r)
    ELSE IF r = "True" THEN Generator(<<x>> \o rest.items, rest.err)
    ELSE rest

RECURSIVE FilterChain(_, _, _)
\* The generator over the candidates: the survivors in order, up to the
\* first candidate whose evaluation raises.
FilterChain(s, cands, ignore) ==
    IF cands = <<>> THEN Generator(<<>>, "")
    ELSE Chain(KeepItem(s, Head(cands), ignore), Head(cands),
               FilterChain(s, Tail(cands), ignore))

\* A variant of Finish that returns the survivors where check_component
\* returns the component list; WholeSetOrNothing does not hold of it.
FinishWithSurvivors(s, orig, recurrence_set) ==
    IF s.expand THEN IterableOrFalse(recurrence_set)
    ELSE IF recurrence_set.items # <<>> THEN Returned("list", recurrence_set.items)
    ELSE IF recurrence_set.err # "" THEN Raise(recurrence_set.err)
    ELSE Returned("none", <<>>)

\* The return statement of check_component.
Finish(s, orig, recurrence_set) ==
    IF s.expand THEN IterableOrFalse(recurrence_set)
    ELSE IF recurrence_set.items # <<>> THEN Returned("list", orig)
    ELSE IF recurrence_set.err # "" THEN Raise(recurrence_set.err)
    ELSE Returned("none", <<>>)

\* A variant of DropMaster that drops the master whatever the check of it
\* said; MasterOverrideLaw does not hold of it.
DropMasterAlways(orig, base_element_match) == Tail(orig)

\* The working set after the check of the unexpanded master: without its
\* first element when the master does not match.
DropMaster(orig, base_element_match) ==
    IF base_element_match THEN orig ELSE Tail(orig)

\* The candidates: the expansion of the working set when the first
\* component recurs, else the working set.
Candidates(s, orig, working, expand_only, ignore) ==
    IF ~ignore /\ HasRRule(orig[1])
    THEN ExpandRecurrences(s, working, IF expand_only THEN Kinds ELSE AcceptedKinds(s))
    ELSE working

\* A variant of RecurrenceSet that filters the candidates under expand_only
\* as well; ExpandOnlyRule does not hold of it.
RecurrenceSetFiltered(s, cands, expand_only, ignore) == FilterChain(s, cands, ignore)

\* recurrence_set: the candidates, behind the filtering generators unless
\* expand_only.
RecurrenceSet(s, cands, expand_only, ignore) ==
    IF expand_only THEN List(cands) ELSE FilterChain(s, cands, ignore)

\* check_component once the defaults are resolved.
Resolved(s, orig, working, expand_only, ignore) ==
    [s |-> s,
     out |-> Finish(s, orig,
                    RecurrenceSet(s, Candidates(s, orig, working, expand_only, ignore),
                                  expand_only, ignore))]

\* check_component from the resolution of the defaults on; s is the
\* Searcher after the check of the master.
Evaluate(s, orig, working, expand_only, ignore) ==
    Resolved(AfterExpansion(ResolveKindFlags(ResolveIncludeCompleted(s)), orig, ignore),
             orig, working, expand_only, ignore)

\* check_component after the recursive call on the master returned base.
AfterMaster(base, orig, expand_only, ignore) ==
    IF base.out.kind = "raise" THEN base
    ELSE Evaluate(base.s, orig, DropMaster(orig, TruthyOutcome(base.out)),
                  expand_only, ignore)

RECURSIVE CheckComponentCall(_, _, _, _)

\* check_component on the normalized component list orig, with the bounds
\* of s normalized.
Checked(s, orig, expand_only, ignore) ==
    IF ~expand_only /\ HasRRule(orig[1]) /\ ~ignore
    THEN AfterMaster(CheckComponentCall(s, Bare(orig[1]), FALSE, TRUE),
                     orig, expand_only, ignore)
    ELSE Evaluate(s, orig, orig, expand_only, ignore)

\* check_component after _validate_and_normalize_component returned norm.
AfterNormalize(s, norm, expand_only, ignore) ==
    IF norm.kind = "raise" THEN [s |-> s, out |-> norm]
    ELSE IF expand_only /\ ~s.expand THEN [s |-> s, out |-> norm]
    ELSE IF s.module = InitPy /\ HasDateBound(s)
    THEN [s |-> s, out |-> Raise("NotImplementedError")]
    ELSE Checked(NormalizeBounds(s), norm.items, expand_only, ignore)

\* check_component(component, expand_only, _ignore_rrule_and_time): the
\* Searcher as the call leaves it, and the outcome.
CheckComponentCall(s, input, expand_only, ignore) ==
    AfterNormalize(s, ValidateAndNormalize(s.module, input), expand_only, ignore)

\* The public call.
CheckComponent(s, input, expand_only) == CheckComponentCall(s, input, expand_only, FALSE)

(***************************************************************************)
(* Sort keys and sorting values.  A sort key is registered as              *)
(* [key, reverse, cs]: the property name (or one of the two computed       *)
(* keys), the reversed flag, and the case sensitivity its collation        *)
(* stands for.  A sorting value is a list of Python values, each with its  *)
(* type: "str" (characters), "bytes" (numbers 0..255), "int" or "bool".    *)
(***************************************************************************)
SortKey(key, reverse, cs) == [key |-> key, reverse |-> reverse, cs |-> cs]

SpecialKeys == {"isnt_overdue", "hasnt_started"}

\* The property names of types_factory.types_map that the model knows.
PropertyKeys == {"SUMMARY", "DTSTART", "DUE", "PRIORITY"}

\* Searcher.add_sort_key: the key is appended; the collation is kept per
\* key, so it is that of the last registration of the key.  The class of
\* __init__.py keeps no collation.
AddSortKeyTo(s, k) ==
    LET cs == IF s.module = InitPy THEN TRUE ELSE k.cs
        recoll == [i \in 1..Len(s.sort_keys) |->
                      IF s.sort_keys[i].key = k.key
                      THEN [s.sort_keys[i] EXCEPT !.cs = cs] ELSE s.sort_keys[i]]
    IN  [s EXCEPT !.sort_keys = Append(recoll, [k EXCEPT !.cs = cs])]

\* add_sort_key(key, reversed, case_sensitive): the assertion turns down a
\* key that is neither a property name nor a computed key.
AddSortKey(s, k) ==
    IF k.key \notin PropertyKeys \cup SpecialKeys
    THEN [s |-> s, out |-> Raise("AssertionError")]
    ELSE [s |-> AddSortKeyTo(s, k), out |-> Returned("", <<>>)]

StrVal(v) == [t |-> "str", v |-> v, n |-> 0]
BytesVal(v) == [t |-> "bytes", v |-> v, n |-> 0]
IntVal(n) == [t |-> "int", v |-> <<>>, n |-> n]
BoolVal(b) == [t |-> "bool", v |-> <<>>, n |-> IF b THEN 1 ELSE 0]

\* ord(c) of the characters the model uses.
Ord(c) ==
    CASE c = "," -> 44 [] c = "-" -> 45
      [] c = "0" -> 48 [] c = "1" -> 49 [] c = "2" -> 50 [] c = "3" -> 51
      [] c = "4" -> 52 [] c = "5" -> 53 [] c = "6" -> 54 [] c = "7" -> 55
      [] c = "8" -> 56 [] c = "9" -> 57
      [] c = "A" -> 65 [] c = "B" -> 66 [] c = "C" -> 67
      [] c = "a" -> 97 [] c = "b" -> 98 [] c = "c" -> 99
      [] c = "f" -> 102 [] c = "o" -> 111 [] c = "s" -> 115 [] c = "w" -> 119
      [] OTHER -> 63

\* str.encode(): the bytes of a text of ASCII characters.
Encode(text) == [i \in 1..Len(text) |-> Ord(text[i])]

\* bytes(b ^ 0xFF for b in val)
Complement(bytes) == [i \in 1..Len(bytes) |-> 255 - bytes[i]]

Digits == <<"0", "1", "2", "3", "4", "5", "6", "7", "8", "9">>

\* A number below 100 in two digits.
TwoDigits(n) == <<Digits[(n \div 10) + 1], Digits[(n % 10) + 1]>>

\* strftime("%F%H%M%S") of an instant of January 1970.
StrfTime(t) ==
    <<"1", "9", "7", "0", "-", "0", "1", "-">>
        \o TwoDigits((t \div Day) + 1) \o TwoDigits((t % Day) \div 3600)
        \o TwoDigits((t % 3600) \div 60) \o TwoDigits(t % 60)

\* comp.get(sort_key, None), as [has, val]: the text of SUMMARY, the date
\* or datetime of DTSTART and DUE, the number of PRIORITY.  The computed
\* keys name no property.
SortProperty(c, key) ==
    CASE key = "SUMMARY" -> [has |-> c.summary # NoText, text |-> c.summary, dt |-> NoDt, n |-> 0]
      [] key = "DTSTART" -> [has |-> c.dtstart.k # "none", text |-> NoText, dt |-> c.dtstart, n |-> 0]
      [] key = "DUE" -> [has |-> c.name = "VTODO" /\ c.dtend.k # "none", text |-> NoText,
                         dt |-> c.dtend, n |-> 0]
      [] key = "PRIORITY" -> [has |-> c.priority # NoPriority, text |-> NoText, dt |-> NoDt,
                              n |-> c.priority]
      [] OTHER -> [has |-> FALSE, text |-> NoText, dt |-> NoDt, n |-> 0]

RECURSIVE TextLess(_, _)
\* a < b on two str values.
TextLess(a, b) ==
    IF b = <<>> THEN FALSE
    ELSE IF a = <<>> THEN TRUE
    ELSE IF Ord(Head(a)) # Ord(Head(b)) THEN Ord(Head(a)) < Ord(Head(b))
    ELSE TextLess(Tail(a), Tail(b))

\* defaults.get(sort_key.lower(), ""), now being datetime.now().
SortDefault(c, key, now) ==
    CASE key = "DUE" -> StrVal(<<"2", "0", "5", "0", "-", "0", "1", "-", "0", "1">>)
      [] key = "DTSTART" -> StrVal(<<"1", "9", "7", "0", "-", "0", "1", "-", "0", "1">>)
      [] key = "PRIORITY" -> IntVal(0)
      [] key = "isnt_overdue" ->
           BoolVal(~(/\ SortProperty(c, "DUE").has
                  /\ TextLess(StrfTime(NormalizeDt(c.dtend)), StrfTime(now))))
      [] key = "hasnt_started" ->
           BoolVal(/\ SortProperty(c, "DTSTART").has
                /\ TextLess(StrfTime(now), StrfTime(NormalizeDt(c.dtstart))))
      [] OTHER -> StrVal(NoText)

\* get_sort_key_function(collation): the bytes of the text, lower-cased
\* first under the case-insensitive collation.
SortKeyFunction(cs, text) == IF cs THEN Encode(text) ELSE Encode(Lower(text))

\* The value of a property that is present, before the reversal: a date or
\* datetime as the text strftime gives, a text under the collation of the
\* key (searcher.py) or as it is (__init__.py), a number as it is.
SortPresent(module, k, p) ==
    IF p.dt.k # "none" THEN StrVal(StrfTime(NormalizeDt(p.dt)))
    ELSE IF p.text # NoText
         THEN (IF module = SearcherPy THEN BytesVal(SortKeyFunction(k.cs, p.text))
               ELSE StrVal(p.text))
    ELSE IntVal(p.n)

\* The reversal: the complement of every byte of a text, the negation of a
\* number.
Reversed(val) ==
    CASE val.t = "str" -> BytesVal(Complement(Encode(val.v)))
      [] val.t = "bytes" -> BytesVal(Complement(val.v))
      [] OTHER -> IntVal(0 - val.n)

\* One turn of the loop of sorting_value: the default when the property
\* is missing, and the loop goes on at once; else the value, reversed if
\* the key says so.
SortValue(module, k, c, now) ==
    IF ~SortProperty(c, k.key).has THEN SortDefault(c, k.key, now)
    ELSE IF k.reverse THEN Reversed(SortPresent(module, k, SortProperty(c, k.key)))
    ELSE SortPresent(module, k, SortProperty(c, k.key))

\* sorting_value(component): one value per sort key, taken from the first
\* sub-component that is no timezone; next() raises when there is none.
SortingValue(s, input, now) ==
    LET comps == WithoutTimezones(Unwrap(input))
    IN  IF comps = <<>> THEN Raise("StopIteration")
        ELSE Returned("value", [i \in 1..Len(s.sort_keys) |->
                                    SortValue(s.module, s.sort_keys[i], comps[1], now)])

\* Searcher.filter(components)
FilterComponents(s, components) == Raise("NotImplementedError")

\* Searcher.sort(components)
Sort(s, components) == Raise("NotImplementedError")

(***************************************************************************)
(* The state machine.  searcher is the Searcher object; last records the   *)
(* last call made on it (the Searcher before the call, the arguments and   *)
(* the outcome); prev holds the outcome of the call before it when that    *)
(* was a check_component call with the same arguments.                     *)
(***************************************************************************)
NoComp == Comp("VEVENT", "none")
NoOutcome == Returned("", <<>>)
NoPrev == [same |-> FALSE, out |-> NoOutcome]

NoFilter == Filter("", "", NoText, {}, TRUE)

NoSortKey == SortKey("", FALSE, TRUE)

\* list is the argument of filter and sort, key that of add_sort_key, now
\* the wall clock sorting_value read.
NoCall ==
    [op |-> "none", before |-> NewSearcher, input |-> Calendar(<<>>),
     comp |-> NoComp, filter |-> NoFilter, eo |-> FALSE, out |-> NoOutcome,
     list |-> <<>>, key |-> NoSortKey, now |-> 0]

\* The Searcher constructed with the given flags.
SearcherWith(todo, event, journal, ic, expand, start, end) ==
    [NewSearcher EXCEPT !.todo = todo, !.event = event, !.journal = journal,
                        !.include_completed = ic, !.expand = expand,
                        !.start = start, !.end = end]

\* The Searcher constructed alike from the class of the given module.
Of(module, s) == [s EXCEPT !.module = module]

InitWith(Searchers) ==
    /\ searcher \in Searchers
    /\ last = NoCall
    /\ prev = NoPrev

\* check_component(input, expand_only) on one of the given inputs.
Called(r, input, eo) ==
    /\ searcher' = r.s
    /\ last' = [NoCall EXCEPT !.op = "check_component", !.before = searcher,
                                  !.input = input, !.eo = eo, !.out = r.out]
    /\ prev' = IF /\ last.op = "check_component"
                  /\ last.input = input /\ last.eo = eo
               THEN [same |-> TRUE, out |-> last.out]
               ELSE NoPrev

CheckComponentOver(Inputs) ==
    \E input \in Inputs, eo \in BOOLEAN :
        Called(CheckComponent(searcher, input, eo), input, eo)

\* A call of a method that leaves the Searcher alone.
PureCall(op, c, input, out) ==
    /\ last' = [NoCall EXCEPT !.op = op, !.before = searcher, !.input = input,
                                  !.comp = c, !.out = out]
    /\ prev' = NoPrev
    /\ UNCHANGED searcher

ReturnedOrRaised(r) == IF r \in {"True", "False"} THEN Returned(r, <<>>) ELSE Raise(r)

Verdict(b) == Returned(IF b THEN "True" ELSE "False", <<>>)

\* _check_completed_filter(c); check_component calls it once
\* include_completed is resolved.
CheckCompletedFilterOver(Comps) ==
    \E c \in Comps :
        /\ searcher.include_completed # "None"
        /\ PureCall("_check_completed_filter", c, Calendar(<<>>),
                    Verdict(CheckCompletedFilter(searcher, c)))

\* _check_range(c); check_component calls it once the bounds are normalized.
CheckRangeOver(Comps) ==
    \E c \in Comps :
        /\ searcher = NormalizeBounds(searcher)
        /\ PureCall("_check_range", c, Calendar(<<>>),
                    ReturnedOrRaised(CheckRange(searcher, c)))

\* _check_alarm_range(c); check_component calls it once the bounds are
\* normalized.
CheckAlarmRangeOver(Comps) ==
    \E c \in Comps :
        /\ searcher = NormalizeBounds(searcher)
        /\ PureCall("_check_alarm_range", c, Calendar(<<>>),
                    Verdict(CheckAlarmRange(searcher, c)))

\* _check_property_filters(c)
CheckPropertyFiltersOver(Comps) ==
    \E c \in Comps :
        PureCall("_check_property_filters", c, Calendar(<<>>),
                 Verdict(CheckPropertyFilters(searcher, c, FALSE)))

\* _validate_and_normalize_component(input)
ValidateAndNormalizeOver(Inputs) ==
    \E input \in Inputs :
        PureCall("_validate_and_normalize_component", NoComp, input,
                 ValidateAndNormalize(searcher.module, input))

\* A variant of AddPropertyFilter that records the operator before it
\* looks at it; UnsupportedOperatorRule does not hold of it.
AddPropertyFilterRecording(s, f) ==
    [s |-> AddPropertyFilterTo(s, f),
     out |-> IF f.op \in Operators THEN NoOutcome ELSE Raise("NotImplementedError")]

\* add_property_filter(key, value, operator, case_sensitive): an operator
\* outside the three supported ones raises before anything is stored.
AddPropertyFilter(s, f) ==
    IF f.op \notin Operators THEN [s |-> s, out |-> Raise("NotImplementedError")]
    ELSE [s |-> AddPropertyFilterTo(s, f), out |-> NoOutcome]

AddPropertyFilterOver(Filters) ==
    \E f \in Filters :
        /\ KeyIndex(searcher.filters, f.key) # 0 \/ Len(searcher.filters) < MaxFilters
        \* Category keys are given to the class of searcher.py only.
        /\ searcher.module = SearcherPy \/ ~IsCategoryKey(f.key)
        /\ searcher' = AddPropertyFilter(searcher, f).s
        /\ last' = [NoCall EXCEPT !.op = "add_property_filter", !.before = searcher,
                                  !.filter = f, !.out = AddPropertyFilter(searcher, f).out]
        /\ prev' = NoPrev

\* add_sort_key(key, reversed, case_sensitive)
AddSortKeyOver(Keys) ==
    \E k \in Keys :
        /\ Len(searcher.sort_keys) < MaxSortKeys
        /\ searcher' = AddSortKey(searcher, k).s
        /\ last' = [NoCall EXCEPT !.op = "add_sort_key", !.before = searcher,
                                  !.key = k, !.out = AddSortKey(searcher, k).out]
        /\ prev' = NoPrev

\* sorting_value(input), the wall clock showing one of the given instants.
SortingValueOver(Inputs, Nows) ==
    \E input \in Inputs, now \in Nows :
        /\ last' = [NoCall EXCEPT !.op = "sorting_value", !.before = searcher,
                                  !.input = input, !.now = now,
                                  !.out = SortingValue(searcher, input, now)]
        /\ prev' = NoPrev
        /\ UNCHANGED searcher

\* filter(components)
FilterOver(Lists) ==
    \E components \in Lists :
        /\ last' = [NoCall EXCEPT !.op = "filter", !.before = searcher,
                                  !.list = components,
                                  !.out = FilterComponents(searcher, components)]
        /\ prev' = NoPrev
        /\ UNCHANGED searcher

\* sort(components)
SortOver(Lists) ==
    \E components \in Lists :
        /\ last' = [NoCall EXCEPT !.op = "sort", !.before = searcher,
                                  !.list = components,
                                  !.out = Sort(searcher, components)]
        /\ prev' = NoPrev
        /\ UNCHANGED searcher

(***************************************************************************)
(* Spec: kind flags and completion on components that do not recur.        *)
(***************************************************************************)
Statuses == {"", "NEEDS-ACTION", "IN-PROCESS", "COMPLETED", "CANCELLED"}

Todos ==
    {[Comp("VTODO", "u") EXCEPT !.status = st, !.completed = cd] :
        st \in Statuses, cd \in {NoDt, DT(MaxTime - 1)}}

PlainEvent == [Comp("VEVENT", "u") EXCEPT !.dtstart = DT(2), !.dtend = DT(4)]
PlainJournal == [Comp("VJOURNAL", "u") EXCEPT !.dtstart = DT(2)]
Timezone == Comp("VTIMEZONE", "tz")

FlagComps ==
    Todos \cup {PlainEvent, PlainJournal,
                [PlainEvent EXCEPT !.status = "CANCELLED"],
                [PlainJournal EXCEPT !.completed = DT(MaxTime - 1)]}

FlagInputs ==
    {Calendar(<<c>>) : c \in FlagComps}
    \cup {Bare(PlainEvent), Wrapped(<<Timezone, PlainJournal>>),
          Calendar(<<>>), Calendar(<<Timezone>>)}

FlagSettings ==
    {SearcherWith(t, e, j, ic, x, NoDt, NoDt) :
        t \in Tri, e \in Tri, j \in Tri, ic \in Tri, x \in BOOLEAN}

FlagSearchers == {Of(m, s) : m \in Modules, s \in FlagSettings}

Init == InitWith(FlagSearchers)

Next ==
    \/ CheckComponentOver(FlagInputs)
    \/ CheckCompletedFilterOver(FlagComps)

Spec == Init /\ [][Next]_vars

(***************************************************************************)
(* SpecRange: time ranges on components that do not recur.                 *)
(***************************************************************************)
Instants == 0..MaxTime

\* Events with a start, and an end no earlier than the start or none.
TimedEvents ==
    {c \in {[Comp("VEVENT", "u") EXCEPT !.dtstart = DT(a), !.dtend = e] :
                a \in Instants, e \in {NoDt} \cup {DT(b) : b \in Instants}} :
        c.dtend.k = "none" \/ c.dtend.v >= c.dtstart.v}

\* Tasks with every choice of DTSTART and DUE, and those without either
\* with every choice of CREATED and COMPLETED.
TimedTodos ==
    {[Comp("VTODO", "u") EXCEPT !.dtstart = a, !.dtend = b] :
        a \in {NoDt, DT(2)}, b \in {NoDt, DT(1), DT(3)}}
    \cup {[Comp("VTODO", "u") EXCEPT !.created = cr, !.completed = cd] :
        cr \in {NoDt, DT(0)}, cd \in {NoDt, DT(MaxTime)}}

RangeComps ==
    TimedEvents \cup TimedTodos
    \cup {Comp("VEVENT", "u"),
          [Comp("VEVENT", "u") EXCEPT !.dtstart = D(0)],
          Comp("VJOURNAL", "u"),
          [Comp("VJOURNAL", "u") EXCEPT !.dtstart = DT(2)],
          [Comp("VJOURNAL", "u") EXCEPT !.dtstart = D(0)]}

RangeInputs == {Calendar(<<c>>) : c \in RangeComps}

RangeBounds == {NoDt, D(0)} \cup {DT(t) : t \in Instants}

RangeSearchers ==
    {Of(m, SearcherWith("None", "None", "None", "None", x, a, b)) :
        m \in Modules, x \in {FALSE}, a \in RangeBounds, b \in RangeBounds}

InitRange == InitWith(RangeSearchers)

NextRange ==
    \/ CheckRangeOver(RangeComps)
    \/ CheckComponentOver(RangeInputs)

SpecRange == InitRange /\ [][NextRange]_vars

(***************************************************************************)
(* SpecProps: property filters.                                            *)
(***************************************************************************)
PropComps ==
    {[Comp("VEVENT", "u") EXCEPT !.dtstart = DT(1), !.summary = su,
                                 !.location = lo, !.cats = ca] :
        su \in {NoText, <<"a">>, <<"A">>}, lo \in {NoText, <<"a">>},
        ca \in {{}, {<<"a">>}}}

PropInputs == {Calendar(<<c>>) : c \in PropComps}

PropFilters ==
    {Filter("SUMMARY", "contains", <<"a">>, {}, cs) : cs \in BOOLEAN}
    \cup {Filter("SUMMARY", op, <<"a">>, {}, TRUE) : op \in {"==", "undef"}}
    \cup {Filter("LOCATION", op, <<"a">>, {}, TRUE) : op \in Operators}
    \cup {Filter("category", "contains", <<"a">>, {}, TRUE),
          Filter("categories", "==", NoText, {<<"a">>}, TRUE),
          Filter("SUMMARY", "!=", <<"a">>, {}, TRUE)}

InitProps == InitWith({Of(m, NewSearcher) : m \in Modules})

NextProps ==
    \/ AddPropertyFilterOver(PropFilters)
    \/ CheckPropertyFiltersOver(PropComps)
    \/ CheckComponentOver(PropInputs)

SpecProps == InitProps /\ [][NextProps]_vars

(***************************************************************************)
(* SpecRecur: recurrence sets, with a text filter and a time window.       *)
(***************************************************************************)
\* The master: it starts at 0 and recurs every RulePeriod, MaxCount times.
Master(name, su, st) ==
    [Comp(name, "u") EXCEPT !.rrule = TRUE, !.dtstart = DT(0),
                            !.summary = su, !.status = st]

\* The override of occurrence k, starting at the instant at.
Override(name, k, at, su, st) ==
    [Comp(name, "u") EXCEPT !.rid = DT(k * RulePeriod), !.dtstart = DT(at),
                            !.summary = su, !.status = st]

RecurInputs ==
    {Calendar(<<Master("VEVENT", <<"a">>, "")>>),
     Calendar(<<Master("VEVENT", <<"a">>, ""),
                Override("VEVENT", 1, RulePeriod, <<"b">>, "")>>),
     Calendar(<<Master("VEVENT", <<"a">>, ""),
                Override("VEVENT", 1, RulePeriod + 1, <<"b">>, "")>>),
     Wrapped(<<Timezone, Master("VEVENT", <<"b">>, ""),
               Override("VEVENT", 1, RulePeriod, <<"a">>, ""),
               Override("VEVENT", 2, 2 * RulePeriod, <<"a">>, "")>>),
     Calendar(<<Master("VTODO", <<"a">>, "NEEDS-ACTION"),
                Override("VTODO", 1, RulePeriod, <<"a">>, "COMPLETED")>>),
     Calendar(<<Master("VTODO", <<"a">>, "COMPLETED"),
                Override("VTODO", 1, RulePeriod, <<"a">>, "NEEDS-ACTION")>>),
     Bare(Override("VEVENT", 1, RulePeriod, <<"b">>, "")),
     Bare(Override("VTODO", 1, RulePeriod, <<"a">>, "COMPLETED")),
     Calendar(<<Override("VEVENT", 1, RulePeriod, <<"b">>, ""),
                Override("VEVENT", 2, 2 * RulePeriod, <<"a">>, "")>>),
     Bare(PlainEvent)}

\* Query windows: none, around one occurrence, over all, open to one side,
\* and one whose start is a date.
RecurWindows ==
    {<<NoDt, NoDt>>, <<DT(0), DT(1)>>, <<DT(RulePeriod), DT(RulePeriod + 1)>>,
     <<DT(RulePeriod + 1), DT(RulePeriod + 2)>>,
     <<DT(0), DT(RulePeriod * MaxCount)>>,
     <<NoDt, DT(RulePeriod)>>, <<DT(RulePeriod), NoDt>>, <<D(0), DT(1)>>}

RecurFilters ==
    {Filter("SUMMARY", "contains", <<"a">>, {}, TRUE),
     Filter("SUMMARY", "==", <<"b">>, {}, TRUE)}

RecurSettings ==
    {SearcherWith(t, "None", "None", "None", x, w[1], w[2]) :
        t \in {"None", "True"}, x \in BOOLEAN, w \in RecurWindows}

\* The Searchers of both classes, with no filter or one filter registered.
RecurSearchers ==
    {Of(m, s) : m \in Modules, s \in RecurSettings}
    \cup {AddPropertyFilterTo(Of(m, s), f) :
            m \in Modules, s \in RecurSettings, f \in RecurFilters}

InitRecur == InitWith(RecurSearchers)

NextRecur == CheckComponentOver(RecurInputs)

SpecRecur == InitRecur /\ [][NextRecur]_vars

(***************************************************************************)
(* SpecUndef: recurring events under an "undef" filter on DTEND.           *)
(***************************************************************************)
\* An all-day master without DTEND, a master with a time of day and no
\* DTEND, a master that has a DTEND, an all-day master with an override,
\* and an all-day event that does not recur.
AllDayMaster(su) ==
    [Comp("VEVENT", "u") EXCEPT !.rrule = TRUE, !.dtstart = D(0), !.summary = su]

UndefInputs ==
    {Calendar(<<AllDayMaster(<<"a">>)>>),
     Calendar(<<AllDayMaster(<<"b">>)>>),
     Calendar(<<Master("VEVENT", <<"a">>, "")>>),
     Calendar(<<[Master("VEVENT", <<"a">>, "") EXCEPT !.dtend = DT(1)]>>),
     Calendar(<<AllDayMaster(<<"a">>), Override("VEVENT", 1, RulePeriod, <<"b">>, "")>>),
     Bare([Comp("VEVENT", "u") EXCEPT !.dtstart = D(0), !.summary = <<"a">>])}

UndefFilters ==
    {Filter("DTEND", "undef", NoText, {}, TRUE),
     Filter("SUMMARY", "contains", <<"a">>, {}, TRUE),
     Filter("SUMMARY", "==", <<"a">>, {}, TRUE),
     Filter("LOCATION", "undef", NoText, {}, TRUE)}

UndefSettings ==
    {SearcherWith("None", e, "None", "None", x, NoDt, NoDt) :
        e \in {"None", "True"}, x \in BOOLEAN}

InitUndef == InitWith({Of(m, s) : m \in Modules, s \in UndefSettings})

NextUndef ==
    \/ AddPropertyFilterOver(UndefFilters)
    \/ CheckComponentOver(UndefInputs)

SpecUndef == InitUndef /\ [][NextUndef]_vars

(***************************************************************************)
(* SpecNorm: inputs of every shape.                                        *)
(***************************************************************************)
\* A master, an override of its second occurrence, the same override under
\* another UID, a component that carries both RRULE and RECURRENCE-ID, a
\* component with neither, and a timezone definition.
NormComps ==
    {Master("VEVENT", <<"a">>, ""),
     Override("VEVENT", 1, RulePeriod, <<"b">>, ""),
     [Override("VEVENT", 1, RulePeriod, <<"b">>, "") EXCEPT !.uid = "v"],
     [Master("VEVENT", <<"a">>, "") EXCEPT !.rid = DT(0)],
     [PlainEvent EXCEPT !.uid = "u"],
     Timezone}

\* The lists of at most MaxSubs of these components.
NormLists == UNION {[1..n -> NormComps] : n \in 0..MaxSubs}

NormInputs ==
    {Calendar(subs) : subs \in NormLists}
    \cup {Wrapped(subs) : subs \in {l \in NormLists : Len(l) = 2}}
    \cup {Bare(c) : c \in NormComps \ {Timezone}}

InitNorm == InitWith({Of(m, NewSearcher) : m \in Modules})

NextNorm ==
    \/ ValidateAndNormalizeOver(NormInputs)
    \/ CheckComponentOver(NormInputs)

SpecNorm == InitNorm /\ [][NextNorm]_vars

(***************************************************************************)
(* SpecDay: events and journals whose start is a date or a datetime and    *)
(* that have no end, against windows cut at midnight and at noon.          *)
(***************************************************************************)
HalfDay == Day \div 2

Days == 0..MaxDay

\* Midnight and noon of every day, and the midnight after the last.
DayInstants ==
    {d * Day : d \in Days} \cup {d * Day + HalfDay : d \in Days}
    \cup {(MaxDay + 1) * Day}

DayStarts == {D(d) : d \in Days} \cup {DT(t) : t \in DayInstants}

DayComps ==
    {[Comp("VEVENT", "u") EXCEPT !.dtstart = a] : a \in DayStarts}
    \cup {[Comp("VJOURNAL", "u") EXCEPT !.dtstart = a] : a \in {NoDt} \cup DayStarts}

DayInputs == {Calendar(<<c>>) : c \in DayComps}

DayBounds == {NoDt} \cup {DT(t) : t \in DayInstants}

DaySearchers ==
    {Of(m, SearcherWith("None", "None", "None", "None", FALSE, a, b)) :
        m \in Modules, a \in DayBounds, b \in DayBounds}

InitDay == InitWith(DaySearchers)

NextDay ==
    \/ CheckRangeOver(DayComps)
    \/ CheckComponentOver(DayInputs)

SpecDay == InitDay /\ [][NextDay]_vars

(***************************************************************************)
(* SpecAlarm: alarm ranges.  The components start at 1 and end at 3.       *)
(***************************************************************************)
Repeating(a, n, d) ==
    [a EXCEPT !.has_repeat = TRUE, !.repeat = n, !.has_duration = TRUE,
              !.duration = d]

\* An alarm with REPEAT and no DURATION.
RepeatOnly(a, n) == [a EXCEPT !.has_repeat = TRUE, !.repeat = n]

SingleAlarms ==
    {Alarm(DT(2), ""), Alarm(Delta(-1), ""), Alarm(Delta(1), "END"),
     Repeating(Alarm(Delta(0), ""), MaxRepeat, 1),
     RepeatOnly(Alarm(Delta(0), "START"), MaxRepeat),
     Alarm(NoDt, "")}

AlarmLists ==
    {<<>>} \cup {<<a>> : a \in SingleAlarms}
    \cup {<<Alarm(NoDt, ""), Alarm(DT(2), "")>>,
          <<Alarm(Delta(-1), ""), Alarm(Delta(1), "END")>>,
          <<Repeating(Alarm(Delta(0), ""), MaxRepeat, 1), Alarm(DT(0), "")>>}

AlarmEvents ==
    {[Comp("VEVENT", "u") EXCEPT !.dtstart = DT(1), !.dtend = DT(3), !.alarms = al] :
        al \in AlarmLists}

\* Tasks with a due and no start, with a start and no due, and with neither.
AlarmTodos ==
    {[Comp("VTODO", "u") EXCEPT !.dtstart = a, !.dtend = b, !.alarms = <<x>>] :
        a \in {NoDt}, b \in {NoDt, DT(3)},
        x \in {Alarm(DT(2), ""), Alarm(Delta(-1), ""), Alarm(Delta(-1), "END")}}
    \cup {[Comp("VTODO", "u") EXCEPT !.dtstart = DT(1),
                                      !.alarms = <<Alarm(Delta(-1), "")>>]}

\* A journal, which has a start and no end, with an alarm related to the
\* end; and a task without start and due whose first alarm has nothing to
\* count from.
AlarmOthers ==
    {[Comp("VJOURNAL", "u") EXCEPT !.dtstart = DT(1), !.alarms = <<Alarm(Delta(1), "END")>>],
     [Comp("VTODO", "u") EXCEPT !.alarms = <<Alarm(Delta(-1), ""), Alarm(DT(2), "")>>]}

AlarmComps == AlarmEvents \cup AlarmTodos \cup AlarmOthers

AlarmInputs == {Calendar(<<c>>) : c \in AlarmComps}

AlarmBounds == {NoDt} \cup {DT(t) : t \in 0..MaxTime + 1}

AlarmSearchers ==
    {[Of(m, SearcherWith("None", "None", "None", "None", FALSE, w[1], w[2]))
         EXCEPT !.alarm_start = a, !.alarm_end = b] :
        m \in Modules, w \in {<<NoDt, NoDt>>, <<DT(0), DT(MaxTime)>>},
        a \in AlarmBounds, b \in AlarmBounds}

InitAlarm == InitWith(AlarmSearchers)

NextAlarm ==
    \/ CheckAlarmRangeOver(AlarmComps)
    \/ CheckComponentOver(AlarmInputs)

SpecAlarm == InitAlarm /\ [][NextAlarm]_vars

(***************************************************************************)
(* SpecCats: filters on the key "categories", given as a string or as a    *)
(* list of names, on the class of searcher.py.                             *)
(***************************************************************************)
Outdoor == <<"o">>
Family == <<"f">>
Winter == <<"w">>
Summer == <<"s">>
Outdoors == <<"o", "s">>

\* The names, one after the other with a comma between them.
RECURSIVE Joined(_)
Joined(names) ==
    IF Len(names) = 1 THEN names[1]
    ELSE names[1] \o <<",">> \o Joined(Tail(names))

CatStrings ==
    {Joined(l) : l \in {<<Outdoor>>, <<Outdoors>>, <<Winter, Outdoor>>,
                        <<Outdoor, Summer>>, <<Family, Outdoor, Winter>>,
                        <<Winter, Family, Outdoor>>}}

\* Lists of names; the last is one name that holds a comma.
CatLists ==
    {{Outdoor}, {Winter, Outdoor}, {Outdoor, Summer}, {Family, Outdoor, Winter},
     {Joined(<<Winter, Outdoor>>)}}

CatFilters ==
    {Filter("categories", op, t, {}, TRUE) : op \in {"contains", "=="}, t \in CatStrings}
    \cup {Filter("categories", op, NoText, l, TRUE) : op \in {"contains", "=="}, l \in CatLists}
    \cup {Filter("categories", "undef", NoText, {}, TRUE),
          Filter("SUMMARY", "contains", <<"a">>, {}, TRUE)}

CatComps ==
    {[Comp("VEVENT", "u") EXCEPT !.dtstart = DT(1), !.summary = <<"a">>, !.cats = ca] :
        ca \in {{}, {Outdoor}, {Outdoor, Winter}, {Outdoor, Family, Winter},
                {Outdoors, Family, Winter}}}

CatInputs == {Calendar(<<c>>) : c \in CatComps}

InitCats == InitWith({NewSearcher})

NextCats ==
    \/ AddPropertyFilterOver(CatFilters)
    \/ CheckPropertyFiltersOver(CatComps)
    \/ CheckComponentOver(CatInputs)

SpecCats == InitCats /\ [][NextCats]_vars

(***************************************************************************)
(* SpecExpandOnly: check_component with and without expand_only, under     *)
(* every kind of filter.                                                   *)
(***************************************************************************)
ExpandOnlyInputs ==
    {Calendar(<<Master("VEVENT", <<"a">>, "")>>),
     Calendar(<<Master("VEVENT", <<"a">>, ""),
                Override("VEVENT", 1, RulePeriod + 1, <<"b">>, "")>>),
     Wrapped(<<Timezone, Master("VTODO", <<"a">>, "COMPLETED"),
               Override("VTODO", 1, RulePeriod, <<"a">>, "NEEDS-ACTION")>>),
     Bare(PlainEvent),
     Bare(Override("VTODO", 1, RulePeriod, <<"a">>, "COMPLETED")),
     Calendar(<<>>)}

ExpandOnlyWindows ==
    {<<NoDt, NoDt>>, <<DT(0), DT(1)>>, <<DT(RulePeriod), NoDt>>}

ExpandOnlySettings ==
    {[SearcherWith(k[1], k[2], "None", ic, x, w[1], w[2])
         EXCEPT !.alarm_start = a[1], !.alarm_end = a[2]] :
        k \in {<<"None", "None">>, <<"True", "None">>, <<"None", "False">>},
        ic \in {"None", "False"}, x \in BOOLEAN, w \in ExpandOnlyWindows,
        a \in {<<NoDt, NoDt>>, <<DT(0), DT(1)>>}}

ExpandOnlySearchers ==
    {Of(m, s) : m \in Modules, s \in ExpandOnlySettings}
    \cup {AddPropertyFilterTo(Of(m, s), Filter("SUMMARY", "==", <<"b">>, {}, TRUE)) :
            m \in Modules, s \in ExpandOnlySettings}

InitExpandOnly == InitWith(ExpandOnlySearchers)

NextExpandOnly == CheckComponentOver(ExpandOnlyInputs)

SpecExpandOnly == InitExpandOnly /\ [][NextExpandOnly]_vars

(***************************************************************************)
(* SpecSort: sort keys, sorting values, and the list methods.              *)
(***************************************************************************)
\* Events with and without SUMMARY, DTSTART and PRIORITY; among the
\* summaries one is a prefix of another and one differs in case only.
SortEvents ==
    {[Comp("VEVENT", "u") EXCEPT !.summary = su, !.dtstart = st, !.priority = pr] :
        su \in {NoText, <<"a">>, <<"a", "b">>, <<"B">>},
        st \in {NoDt, DT(1)}, pr \in {NoPriority, 1}}
    \cup {[Comp("VEVENT", "u") EXCEPT !.summary = <<"b">>, !.dtstart = D(1), !.priority = 5]}

\* Tasks with and without DUE.
SortTodos ==
    {[Comp("VTODO", "u") EXCEPT !.summary = <<"a">>, !.dtend = du] : du \in {NoDt, DT(1), DT(3)}}

SortComps == SortEvents \cup SortTodos

SortInputs ==
    {Calendar(<<c>>) : c \in SortComps}
    \cup {Wrapped(<<Timezone, PlainEvent>>), Calendar(<<Timezone>>)}

\* The instants the wall clock shows.
Nows == {2}

SortKeys ==
    {SortKey("SUMMARY", r, cs) : r \in BOOLEAN, cs \in BOOLEAN}
    \cup {SortKey(k, r, TRUE) : k \in {"DTSTART", "PRIORITY", "DUE", "isnt_overdue"},
                                r \in BOOLEAN}
    \cup {SortKey("COLOUR", FALSE, TRUE)}

\* The lists given to filter and sort: of no, one and two calendars.
SortLists ==
    LET few == {Calendar(<<[Comp("VEVENT", "u") EXCEPT !.summary = <<"a", "b">>, !.dtstart = DT(1)]>>),
                Calendar(<<[Comp("VEVENT", "u") EXCEPT !.summary = <<"a">>, !.dtstart = DT(1)]>>),
                Calendar(<<[Comp("VTODO", "u") EXCEPT !.summary = <<"a">>, !.dtend = DT(1)]>>)}
    IN  UNION {[1..n -> few] : n \in 0..2}

SortSearchers ==
    {Of(m, SearcherWith(t, "None", "None", "None", FALSE, NoDt, NoDt)) :
        m \in Modules, t \in {"None", "True"}}

InitSort == InitWith(SortSearchers)

NextSort ==
    \/ AddSortKeyOver(SortKeys)
    \/ SortingValueOver(SortInputs, Nows)
    \/ FilterOver(SortLists)
    \/ SortOver(SortLists)

SpecSort == InitSort /\ [][NextSort]_vars

(***************************************************************************)
(* SpecReuse: one Searcher, called on one component after another.         *)
(***************************************************************************)
\* Recurring and plain components, among them an event and a journal
\* without DTSTART.
ReuseInputs ==
    {Calendar(<<Master("VEVENT", <<"a">>, "")>>),
     Calendar(<<Master("VEVENT", <<"a">>, ""),
                Override("VEVENT", 1, RulePeriod + 1, <<"b">>, "")>>),
     Calendar(<<Master("VTODO", <<"a">>, "NEEDS-ACTION"),
                Override("VTODO", 1, RulePeriod, <<"a">>, "COMPLETED")>>),
     Bare(PlainEvent), Bare(PlainJournal),
     Bare(Comp("VEVENT", "u")), Bare(Comp("VJOURNAL", "u")),
     Bare([Comp("VTODO", "u") EXCEPT !.status = "COMPLETED"])}

ReuseWindows ==
    {<<NoDt, NoDt>>, <<DT(RulePeriod), DT(RulePeriod + 1)>>, <<DT(RulePeriod), NoDt>>,
     <<D(0), DT(1)>>}

ReuseSettings ==
    {SearcherWith(t, e, "None", ic, x, w[1], w[2]) :
        t \in {"None", "True"}, e \in {"None", "True"}, ic \in {"None", "False"},
        x \in BOOLEAN, w \in ReuseWindows}

ReuseSearchers ==
    {Of(m, s) : m \in Modules, s \in ReuseSettings}
    \cup {AddPropertyFilterTo(Of(m, s), Filter("SUMMARY", "contains", <<"a">>, {}, TRUE)) :
            m \in Modules, s \in ReuseSettings}

InitReuse == InitWith(ReuseSearchers)

NextReuse == CheckComponentOver(ReuseInputs)

SpecReuse == InitReuse /\ [][NextReuse]_vars

(***************************************************************************)
(* Vocabulary of the properties.                                           *)
(***************************************************************************)
\* The last call was check_component with expand_only false.
Matching == last.op = "check_component" /\ ~last.eo

\* The components of the last input that are no timezone definitions.
Given == SelectSeq(last.input.subs, LAMBDA x : x.name # "VTIMEZONE")

\* The last input holds exactly one component, and it does not recur.
OneGiven == Len(Given) = 1 /\ ~Given[1].rrule /\ Given[1].rid.k = "none"

\* The last call returned a truthy value.
Matched == last.out.kind \in {"list", "iter"}

\* The last call returned a falsy value.
Unmatched == last.out.kind \in {"none", "false"}

\* The Searcher of the last call had neither filters nor bounds.
FlagsOnly ==
    /\ last.before.filters = <<>>
    /\ last.before.start.k = "none" /\ last.before.end.k = "none"
    /\ last.before.alarm_start.k = "none" /\ last.before.alarm_end.k = "none"

\* The flag of a kind on a Searcher.
FlagOf(s, name) ==
    CASE name = "VTODO" -> s.todo
      [] name = "VEVENT" -> s.event
      [] OTHER -> s.journal

\* The rule of the kind flags: with no flag set every kind is wanted, with
\* some flag true exactly the kinds whose flag is true, and otherwise the
\* kinds whose flag is not false.
KindWanted(s, name) ==
    IF s.todo = "None" /\ s.event = "None" /\ s.journal = "None" THEN TRUE
    ELSE IF "True" \in {s.todo, s.event, s.journal} THEN FlagOf(s, name) = "True"
    ELSE FlagOf(s, name) # "False"

\* A task that is completed or cancelled.
Finished(c) ==
    /\ c.name = "VTODO"
    /\ c.status \in {"COMPLETED", "CANCELLED"} \/ c.completed.k # "none"

\* A component neither class of Searcher takes for a finished task: no
\* task, or a task without COMPLETED whose STATUS is NEEDS-ACTION or absent.
Pending(c) ==
    \/ c.name # "VTODO"
    \/ c.status \in {"", "NEEDS-ACTION"} /\ c.completed.k = "none"

\* The value include_completed stands for.
ImpliedIncludeCompleted(s) ==
    IF s.include_completed # "None" THEN s.include_completed
    ELSE IF s.todo = "True" THEN "False" ELSE "True"

(***************************************************************************)
(* C1.  With no filters and no bounds, a component that does not recur     *)
(* matches exactly when its kind is wanted by the tri-state rule of the    *)
(* flags (all unset: every kind; some flag true: the kinds whose flag is   *)
(* true; else the kinds whose flag is not false).  A component of a kind   *)
(* that is not wanted never matches; one of a wanted kind matches when the *)
(* completion filter has no say on it, that is when completed tasks are    *)
(* included or the component is no task or a task still pending.           *)
(***************************************************************************)
KindFlagsRule ==
    (Matching /\ OneGiven /\ FlagsOnly) =>
        /\ ~KindWanted(last.before, Given[1].name) => Unmatched
        /\ ( /\ KindWanted(last.before, Given[1].name)
             /\ \/ Pending(Given[1])
                \/ ImpliedIncludeCompleted(last.before) = "True" ) => Matched

\* Two flags true and the third unset: a component of the third kind is
\* turned down.
KindFlagsRuleWitness ==
    /\ Matching /\ OneGiven /\ FlagsOnly
    /\ last.before.todo = "True" /\ last.before.journal = "True"
    /\ last.before.event = "None"
    /\ Given[1].name = "VEVENT"
    /\ Unmatched

(***************************************************************************)
(* C2.  _check_completed_filter turns a component down exactly when        *)
(* include_completed is false, the component is a VTODO, and the task has  *)
(* STATUS COMPLETED or CANCELLED or carries a COMPLETED property.  The     *)
(* Searcher of __init__.py turns down a task with STATUS IN-PROCESS too.   *)
(***************************************************************************)
CompletionFilterRule ==
    last.op = "_check_completed_filter" =>
        (last.out.kind = "False" <=>
            /\ last.before.include_completed = "False"
            /\ Finished(last.comp))

(***************************************************************************)
(* C10.  When include_completed is unset, check_component behaves as if    *)
(* it were false when the todo flag is true and as if it were true         *)
(* otherwise; a value given explicitly is used whatever the todo flag is.  *)
(***************************************************************************)
IncludeCompletedDefault ==
    (Matching /\ OneGiven /\ FlagsOnly /\ Finished(Given[1])
        /\ KindWanted(last.before, "VTODO")) =>
        /\ ImpliedIncludeCompleted(last.before) = "True" => Matched
        /\ ImpliedIncludeCompleted(last.before) = "False" => Unmatched

\* A finished task is turned down by a Searcher with todo true and
\* include_completed unset.
IncludeCompletedDefaultWitness ==
    /\ Matching /\ OneGiven /\ FlagsOnly /\ Finished(Given[1])
    /\ last.before.include_completed = "None"
    /\ last.before.todo = "True"
    /\ Unmatched

(***************************************************************************)
(* C3.  For an event from cs to ce, with ce = cs + 1 second when the event *)
(* has no length, the range match is: both bounds set, start < ce and      *)
(* end > cs; only end set, end > cs; only start set, start < ce; no bound  *)
(* set, true.  It is stated of _check_range and of check_component on a    *)
(* single event with no other filter.                                      *)
(***************************************************************************)
\* An event with a DTSTART that is a datetime, and a DTEND that is one or
\* is absent.
Spanned(c) ==
    /\ c.name = "VEVENT" /\ c.dtstart.k = "datetime"
    /\ c.dtend.k \in {"none", "datetime"}

Cs(c) == c.dtstart.v

Ce(c) ==
    IF c.dtend.k = "none" \/ c.dtend.v = c.dtstart.v THEN c.dtstart.v + 1
    ELSE c.dtend.v

\* The instant of a bound that is set: midnight for a date.
BoundAt(x) == IF x.k = "date" THEN x.v * 86400 ELSE x.v

RangeLaw(s, c) ==
    CASE s.start.k # "none" /\ s.end.k # "none" ->
           BoundAt(s.start) < Ce(c) /\ BoundAt(s.end) > Cs(c)
      [] s.end.k # "none" -> BoundAt(s.end) > Cs(c)
      [] s.start.k # "none" -> BoundAt(s.start) < Ce(c)
      [] OTHER -> TRUE

RangeMatchRule ==
    /\ (last.op = "_check_range" /\ Spanned(last.comp)) =>
           /\ last.out.kind \in {"True", "False"}
           /\ last.out.kind = "True" <=> RangeLaw(last.before, last.comp)
    /\ (Matching /\ OneGiven /\ Spanned(Given[1]) /\ last.before.filters = <<>>
           /\ (last.before.module = SearcherPy \/ ~HasDateBound(last.before))) =>
           /\ Matched \/ Unmatched
           /\ Matched <=> RangeLaw(last.before, Given[1])

\* An event without length that starts at the query start is matched.
RangeMatchRuleWitness ==
    /\ last.op = "_check_range" /\ Spanned(last.comp)
    /\ last.comp.dtend.k = "none"
    /\ last.before.start.k # "none" /\ last.before.end.k # "none"
    /\ last.before.start.v = Cs(last.comp)
    /\ last.out.kind = "True"

(***************************************************************************)
(* C4.  _check_property_filters answers with the conjunction of the        *)
(* registered filters: true exactly when every registered filter, taken    *)
(* alone, holds of the component; so the answer does not depend on the     *)
(* order of registration, and is true when no filter is registered.  The   *)
(* method of filters.py returns true as soon as an "==" filter or a        *)
(* category filter holds, without looking at the filters after it.         *)
(***************************************************************************)
\* The answer of the Searcher s with f as its only filter.
HoldsAlone(s, f, c) == CheckPropertyFilters([s EXCEPT !.filters = <<f>>], c, FALSE)

Answered == Matching /\ last.out.kind # "raise"

\* The last input is a recurrence set led by a master.
MasterGiven == Len(Given) >= 1 /\ Given[1].rrule

OccurrenceTime(subs, k) == subs[1].dtstart.v + k * RulePeriod

GeneratedAt(subs, k) ==
    [subs[1] EXCEPT !.rrule = FALSE, !.rid = DT(OccurrenceTime(subs, k)),
                    !.dtstart = DT(OccurrenceTime(subs, k))]

OverridesOf(subs, k) ==
    {i \in 2..Len(subs) : subs[i].rid.v = OccurrenceTime(subs, k)}

EffectiveAt(subs, k) ==
    IF OverridesOf(subs, k) # {} THEN subs[CHOOSE i \in OverridesOf(subs, k) : TRUE]
    ELSE GeneratedAt(subs, k)

\* The occurrences of the set in the order of their starts.
Effective(subs) == [k \in 1..MaxCount |-> EffectiveAt(subs, k - 1)]

\* The component passes the static filters: kind, completion, and the
\* property filter if one is registered.
Passes(s, c) ==
    /\ KindWanted(s, c.name)
    /\ ImpliedIncludeCompleted(s) = "True" \/ ~Finished(c)
    /\ s.filters = <<>> \/ HoldsAlone(s, s.filters[1], c)

\* The component lies in the query window.
InWindow(s, c) == RangeLaw(s, c)

\* The candidates of a call: the components given when the first does not
\* recur; else the occurrences of the set when the master passes the static
\* filters, and the overrides alone when it does not.
ExpectedCandidates(s, subs) ==
    IF ~subs[1].rrule THEN subs
    ELSE IF Passes(s, subs[1]) THEN Effective(subs)
    ELSE Tail(subs)

ExpectedSurvivors(s, subs) ==
    SelectSeq(ExpectedCandidates(s, subs), LAMBDA x : InWindow(s, x) /\ Passes(s, x))

WholeSetOrNothing ==
    (Answered /\ ~last.before.expand /\ Len(last.before.filters) <= 1) =>
        /\ last.out.kind \in {"list", "none"}
        /\ last.out.kind = "list" => last.out.items = Given
        /\ last.out.kind = "list" <=> ExpectedSurvivors(last.before, Given) # <<>>

\* The master fails the filter, an override survives, and the list
\* returned is led by the master.
WholeSetOrNothingWitness ==
    /\ Answered /\ ~last.before.expand /\ MasterGiven
    /\ Len(last.before.filters) = 1
    /\ ~Passes(last.before, Given[1])
    /\ last.out.kind = "list"
    /\ Len(last.out.items) >= 2 /\ last.out.items[1].rrule

(***************************************************************************)
(* C7.  With expand true, check_component returns False exactly when no    *)
(* occurrence survives the filters, and else an iterable that yields the   *)
(* surviving occurrences, each once, in order, the first one included.     *)
(***************************************************************************)
ExpandedSurvivors ==
    (Answered /\ last.before.expand /\ Len(last.before.filters) <= 1) =>
        /\ last.out.kind \in {"iter", "false"}
        /\ last.out.kind = "false" <=> ExpectedSurvivors(last.before, Given) = <<>>
        /\ last.out.kind = "iter" =>
               /\ last.out.items = ExpectedSurvivors(last.before, Given)
               /\ last.out.err = ""

\* All occurrences of a master survive and are yielded.
ExpandedSurvivorsWitness ==
    /\ Answered /\ last.before.expand /\ MasterGiven
    /\ last.out.kind = "iter"
    /\ Len(last.out.items) = MaxCount

(***************************************************************************)
(* C8.  Normalization returns the components of the input that are no      *)
(* timezone definitions, in order, exactly when there is at least one, the *)
(* first of several carries RRULE or RECURRENCE-ID and every later one     *)
(* RECURRENCE-ID and no RRULE, and all have one UID; in every other case   *)
(* it raises ValueError, and so does check_component.  The Searcher of     *)
(* __init__.py raises as well when the first of several carries            *)
(* RECURRENCE-ID and no RRULE.                                             *)
(***************************************************************************)
WellFormed(subs) ==
    /\ Len(subs) >= 1
    /\ Len(subs) > 1 =>
          /\ subs[1].rrule \/ subs[1].rid.k # "none"
          /\ \A i \in 2..Len(subs) : subs[i].rid.k # "none" /\ ~subs[i].rrule
    /\ \A i, j \in 1..Len(subs) : subs[i].uid = subs[j].uid

NormalizationRule ==
    /\ last.op = "_validate_and_normalize_component" =>
          IF WellFormed(Given)
          THEN last.out.kind = "list" /\ last.out.items = Given
          ELSE last.out.kind = "raise" /\ last.out.err = "ValueError"
    /\ last.op = "check_component" =>
          IF WellFormed(Given)
          THEN last.out.kind # "raise"
          ELSE last.out.kind = "raise" /\ last.out.err = "ValueError"

(***************************************************************************)
(* C9.  Two check_component calls in a row on the same Searcher, with the  *)
(* same input and the same expand_only, have the same outcome: the same    *)
(* answer with the same components, or the same error.                     *)
(***************************************************************************)
SameCallSameOutcome == prev.same => last.out = prev.out

\* The first of the two calls resolved flags that were unset, and normalized
\* a bound, before the second was made; both matched.
SameCallSameOutcomeWitness ==
    /\ prev.same /\ Matched
    /\ last.before.todo # "None" /\ last.before.include_completed # "None"
    /\ last.before.start.k = "datetime"
    /\ MasterGiven

(***************************************************************************)
(* Vocabulary of the interval rules: the comparison of a query window      *)
(* with the interval from lo to hi, an interval without length counting as *)
(* one second long.                                                        *)
(***************************************************************************)
Smaller(a, b) == IF a < b THEN a ELSE b
Larger(a, b) == IF a < b THEN b ELSE a

WindowMeets(s, lo, hi) ==
    LET top == IF lo = hi THEN hi + 1 ELSE hi
    IN  CASE s.start.k # "none" /\ s.end.k # "none" ->
               BoundAt(s.start) < top /\ BoundAt(s.end) > lo
          [] s.end.k # "none" -> BoundAt(s.end) > lo
          [] s.start.k # "none" -> BoundAt(s.start) < top
          [] OTHER -> TRUE

\* The last call was _check_range on a component of the given kind.
RangeChecked(name) == last.op = "_check_range" /\ last.comp.name = name

\* The last call was check_component, of a Searcher with no property filter
\* and bounds it accepts, on one component of the given kind that does not
\* recur.
RangeMatching(name) ==
    /\ Matching /\ OneGiven /\ Given[1].name = name
    /\ last.before.filters = <<>>
    /\ last.before.module = SearcherPy \/ ~HasDateBound(last.before)

(***************************************************************************)
(* C11.  The interval of a VTODO for range matching: when only one of      *)
(* start and due/end is available both ends are that instant; when neither *)
(* is available CREATED stands in for the start and COMPLETED for the end, *)
(* each when present; an end before the start swaps the two; a task with   *)
(* none of the four spans the universal range and matches every window.    *)
(* _check_range gives such a task the interval from DATE_MIN_DT to         *)
(* DATE_MAX_DT, which a window ending by the first or starting from the    *)
(* second does not meet.                                                   *)
(***************************************************************************)
\* The interval the rule gives a task, NoTime for an end that stays open.
TodoSpan(c) ==
    LET s == NormalizeDt(CompStart(c))
        e == NormalizeDt(CompEnd(c))
        cr == NormalizeDt(c.created)
        cd == NormalizeDt(c.completed)
    IN  CASE s # NoTime /\ e # NoTime -> Interval(Smaller(s, e), Larger(s, e))
          [] s # NoTime -> Interval(s, s)
          [] e # NoTime -> Interval(e, e)
          [] cr # NoTime /\ cd # NoTime -> Interval(Smaller(cr, cd), Larger(cr, cd))
          [] cr # NoTime \/ cd # NoTime -> Interval(cr, cd)
          [] OTHER -> Interval(DateMin, DateMax)

\* A task with none of DTSTART, DUE, CREATED and COMPLETED.
Untimed(c) ==
    /\ c.name = "VTODO"
    /\ c.dtstart.k = "none" /\ c.dtend.k = "none"
    /\ c.created.k = "none" /\ c.completed.k = "none"

\* A task whose interval has both ends.
Closed(c) == TodoSpan(c).start # NoTime /\ TodoSpan(c).end # NoTime

TodoIntervalRule ==
    /\ RangeChecked("VTODO") =>
           /\ CompInterval(last.comp) = TodoSpan(last.comp)
           /\ Closed(last.comp) =>
                  /\ last.out.kind \in {"True", "False"}
                  /\ last.out.kind = "True"
                         <=> WindowMeets(last.before, TodoSpan(last.comp).start,
                                         TodoSpan(last.comp).end)
           /\ Untimed(last.comp) => last.out.kind = "True"
    /\ (RangeMatching("VTODO") /\ Closed(Given[1])) =>
           /\ Matched \/ Unmatched
           /\ Matched <=> WindowMeets(last.before, TodoSpan(Given[1]).start,
                                      TodoSpan(Given[1]).end)
    /\ (RangeMatching("VTODO") /\ Untimed(Given[1])) => Matched

(***************************************************************************)
(* Vocabulary of C12 and C13: the interval of a component that has a start *)
(* and no end, one instant for a datetime and the whole day for a date.    *)
(***************************************************************************)
StartOnly(c) == c.dtstart.k # "none" /\ c.dtend.k = "none"

SpanStart(c) == IF c.dtstart.k = "date" THEN c.dtstart.v * Day ELSE c.dtstart.v

SpanEnd(c) == IF c.dtstart.k = "date" THEN (c.dtstart.v + 1) * Day ELSE c.dtstart.v

\* Some bound of the Searcher of the last call was set.
Bounded == last.before.start.k # "none" \/ last.before.end.k # "none"

(***************************************************************************)
(* C12.  A VJOURNAL without a start never matches when a time bound is     *)
(* set; one whose start is a datetime occupies that instant; one whose     *)
(* start is a date occupies the whole day, from its midnight to the next.  *)
(* _check_range tests the start after _normalize_dt has made a datetime of *)
(* it, so a journal with a date start occupies the midnight instant only.  *)
(***************************************************************************)
JournalRangeRule ==
    /\ (RangeChecked("VJOURNAL") /\ Bounded) =>
           /\ last.out.kind \in {"True", "False"}
           /\ last.out.kind = "True"
                  <=> /\ StartOnly(last.comp)
                      /\ WindowMeets(last.before, SpanStart(last.comp),
                                     SpanEnd(last.comp))
    /\ (RangeMatching("VJOURNAL") /\ Bounded) =>
           /\ Matched \/ Unmatched
           /\ Matched <=> /\ StartOnly(Given[1])
                          /\ WindowMeets(last.before, SpanStart(Given[1]),
                                         SpanEnd(Given[1]))

AlarmChecked == last.op = "_check_alarm_range" /\ HasAlarmRange(last.before)

\* The last call was check_component, with some alarm bound set and no
\* property filter, on one component that does not recur.
AlarmMatching ==
    /\ Matching /\ OneGiven
    /\ last.before.filters = <<>> /\ HasAlarmRange(last.before)

\* The last call had no bound on the time range of the component.
Unranged == last.before.start.k = "none" /\ last.before.end.k = "none"

\* The window test of the alarm range on the fire time t.
InAlarmWindow(s, t) ==
    CASE s.alarm_start.k # "none" /\ s.alarm_end.k # "none" ->
           BoundAt(s.alarm_start) <= t /\ t < BoundAt(s.alarm_end)
      [] s.alarm_start.k # "none" -> t >= BoundAt(s.alarm_start)
      [] s.alarm_end.k # "none" -> t < BoundAt(s.alarm_end)
      [] OTHER -> FALSE

\* The instants a relative trigger may count from: the end of the
\* component for RELATED=END when it has one, else its start when it has
\* one.
Anchors(c, a) ==
    IF a.related = "END" /\ CompEnd(c).k # "none" THEN {NormalizeDt(CompEnd(c))}
    ELSE IF CompStart(c).k # "none" THEN {NormalizeDt(CompStart(c))}
    ELSE {}

\* The first fire time of an alarm, if it has one.
BaseTimes(c, a) ==
    CASE a.trigger.k = "none" -> {}
      [] a.trigger.k = "delta" -> {b + a.trigger.v : b \in Anchors(c, a)}
      [] OTHER -> {BoundAt(a.trigger)}

\* An alarm with REPEAT and a DURATION that repeats.
Repeats(a) == a.has_repeat /\ a.has_duration /\ a.duration # 0

\* All the fire times of an alarm.
FireTimes(c, a) ==
    IF Repeats(a)
    THEN {b + i * a.duration : b \in BaseTimes(c, a), i \in 0..a.repeat}
    ELSE BaseTimes(c, a)

\* Some alarm of the component fires in the alarm window.
SomeAlarmIn(s, c) ==
    \E i \in 1..Len(c.alarms) :
        \E t \in FireTimes(c, c.alarms[i]) : InAlarmWindow(s, t)

(***************************************************************************)
(* C14.  The alarm match of a component is true exactly when one of its    *)
(* alarms has a fire time t that passes the window test: alarm_start <= t  *)
(* < alarm_end with both bounds, t >= alarm_start with the start only,     *)
(* t < alarm_end with the end only.  A component without an alarm never    *)
(* matches a query with an alarm bound, whatever its own time range.       *)
(***************************************************************************)
AlarmMatchRule ==
    /\ AlarmChecked =>
           (last.out.kind = "True" <=> SomeAlarmIn(last.before, last.comp))
    /\ (AlarmMatching /\ Unranged) =>
           /\ Matched \/ Unmatched
           /\ Matched <=> SomeAlarmIn(last.before, Given[1])
    /\ (AlarmMatching /\ Given[1].alarms = <<>>) => Unmatched

\* An absolute alarm firing exactly at alarm_start matches.
AlarmMatchRuleWitness ==
    /\ AlarmMatching /\ Unranged /\ Matched
    /\ Given[1].alarms = <<Alarm(DT(2), "")>>
    /\ last.before.alarm_start = DT(2) /\ last.before.alarm_end.k = "datetime"

(***************************************************************************)
(* C15.  An alarm with first fire time b, REPEAT=n and DURATION=d is       *)
(* tested at the n+1 instants b + i*d, i = 0..n, and at no other: a window *)
(* holding one of them, the middle one alone for instance, matches, and a  *)
(* window holding none of them, b + (n+1)*d alone for instance, does not.  *)
(***************************************************************************)
\* The component has one alarm, it repeats, and its first fire time is
\* that of the start of the component.
OneRepeating(c) ==
    /\ Len(c.alarms) = 1 /\ Repeats(c.alarms[1])
    /\ c.alarms[1].trigger = Delta(0) /\ c.dtstart.k = "datetime"

RepeatTimes(c) ==
    {c.dtstart.v + i * c.alarms[1].duration : i \in 0..c.alarms[1].repeat}

AlarmRepeatRule ==
    /\ (AlarmChecked /\ OneRepeating(last.comp)) =>
           (last.out.kind = "True"
                <=> \E t \in RepeatTimes(last.comp) : InAlarmWindow(last.before, t))
    /\ (AlarmMatching /\ Unranged /\ OneRepeating(Given[1])) =>
           (Matched <=> \E t \in RepeatTimes(Given[1]) : InAlarmWindow(last.before, t))

\* A window that holds the second of the three fire times only matches.
AlarmRepeatRuleWitness ==
    /\ AlarmMatching /\ Unranged /\ OneRepeating(Given[1]) /\ Matched
    /\ last.before.alarm_start = DT(Given[1].dtstart.v + Given[1].alarms[1].duration)
    /\ last.before.alarm_end = DT(Given[1].dtstart.v + Given[1].alarms[1].duration + 1)

(***************************************************************************)
(* C16.  For a VTODO with DUE and no DTSTART, an alarm with a relative     *)
(* trigger and no RELATED parameter fires at DUE + trigger, so the task    *)
(* matches an alarm window holding that instant.  _check_alarm_range      *)
(* counts a trigger without RELATED=END from the start of the component    *)
(* only, and skips the alarm when the component has no start.              *)
(***************************************************************************)
\* A task with DUE and no DTSTART whose one alarm has a relative trigger
\* and no RELATED parameter.
DueOnlyRelative(c) ==
    /\ c.name = "VTODO" /\ c.dtstart.k = "none" /\ c.dtend.k = "datetime"
    /\ Len(c.alarms) = 1 /\ ~Repeats(c.alarms[1])
    /\ c.alarms[1].trigger.k = "delta" /\ c.alarms[1].related = ""

DueAlarmTime(c) == c.dtend.v + c.alarms[1].trigger.v

AlarmFromDue ==
    /\ (AlarmChecked /\ DueOnlyRelative(last.comp)) =>
           (last.out.kind = "True"
                <=> InAlarmWindow(last.before, DueAlarmTime(last.comp)))
    /\ (AlarmMatching /\ Unranged /\ DueOnlyRelative(Given[1])) =>
           (Matched <=> InAlarmWindow(last.before, DueAlarmTime(Given[1])))

(***************************************************************************)
(* Vocabulary of the rules of the key "categories".                        *)
(***************************************************************************)
\* The names a comma-separated string lists: its longest stretches without
\* a comma.
Segments(t) ==
    {SubSeq(t, p[1], p[2]) :
        p \in {q \in (1..Len(t) + 1) \X (0..Len(t)) :
                  /\ q[2] >= q[1] - 1
                  /\ q[1] = 1 \/ t[q[1] - 1] = ","
                  /\ q[2] = Len(t) \/ t[q[2] + 1] = ","
                  /\ \A k \in q[1]..q[2] : t[k] # ","}}

\* The set F a filter value names: the names of the string, or of the list.
NamesMeant(f) == IF f.text # NoText THEN Segments(f.text) ELSE f.names

\* The Searcher of the last call had one filter, on "categories" with the
\* given operator, case-sensitive and with names that hold no comma.
OneCategoriesFilter(op) ==
    /\ Len(last.before.filters) = 1
    /\ last.before.filters[1].key = "categories"
    /\ last.before.filters[1].op = op
    /\ last.before.filters[1].cs
    /\ \A n \in NamesMeant(last.before.filters[1]) : \A i \in 1..Len(n) : n[i] # ","

\* The last call was _check_property_filters.
PropsChecked == last.op = "_check_property_filters"

\* The last call was check_component on one component that does not recur,
\* with no bound set.
PropsMatching ==
    /\ Matching /\ OneGiven
    /\ last.before.start.k = "none" /\ last.before.end.k = "none"
    /\ last.before.alarm_start.k = "none" /\ last.before.alarm_end.k = "none"

Occurs(needle, hay) ==
    \E i \in 1..(Len(hay) - Len(needle) + 1) :
        SubSeq(hay, i, i + Len(needle) - 1) = needle

\* The Searcher of the last call had one filter, a "contains" on a text
\* property.
OneTextContains ==
    /\ Len(last.before.filters) = 1
    /\ ~IsCategoryKey(last.before.filters[1].key)
    /\ last.before.filters[1].op = "contains"

\* The rule on the filter f and the value of the property.
ContainsLaw(f, value) ==
    /\ value # NoText
    /\ IF f.cs THEN Occurs(f.text, value) ELSE Occurs(Lower(f.text), Lower(value))

ContainsCaseRule ==
    /\ (PropsChecked /\ OneTextContains) =>
           (last.out.kind = "True"
                <=> ContainsLaw(last.before.filters[1],
                                PropText(last.comp, last.before.filters[1].key)))
    /\ (PropsMatching /\ OneTextContains) =>
           (Matched
                <=> ContainsLaw(last.before.filters[1],
                                PropText(Given[1], last.before.filters[1].key)))

(***************************************************************************)
(* C20.  With expand_only no filter has a say in the result of             *)
(* check_component.  With expand false it returns the normalized list of   *)
(* the components given, whatever the kind flags, the time range, the      *)
(* completion setting, the property filters and the alarm range are.  With *)
(* expand true it returns the expansion of the whole set, the master never *)
(* dropped and every kind expanded, cut to the window of start and end and *)
(* filtered no further; a component that does not recur is returned even   *)
(* when it lies outside the window.                                        *)
(***************************************************************************)
\* The last call was check_component with expand_only, on a valid input.
ExpandOnlyCalled ==
    /\ last.op = "check_component" /\ last.eo
    /\ Len(Given) >= 1
    /\ \A i \in 2..Len(Given) :
           /\ Given[1].rrule
           /\ ~Given[i].rrule /\ Given[i].rid.k # "none"
           /\ Given[i].uid = Given[1].uid

\* An occurrence meets the window the expansion is cut to: an unset start
\* or end leaves that side open.
InExpansionWindow(s, o) ==
    /\ s.end.k = "none" \/ o.dtstart.v <= BoundAt(s.end)
    /\ s.start.k = "none"
           \/ (IF o.dtend.k = "none" THEN o.dtstart.v ELSE o.dtend.v) >= BoundAt(s.start)

\* The expansion of the components given.
ExpectedExpansion(s, subs) ==
    IF ~subs[1].rrule THEN subs
    ELSE SelectSeq(Effective(subs), LAMBDA o : InExpansionWindow(s, o))

ExpandOnlyRule ==
    /\ (ExpandOnlyCalled /\ ~last.before.expand) =>
           last.out = Returned("list", Given)
    /\ (ExpandOnlyCalled /\ last.before.expand
           /\ (last.before.module = SearcherPy \/ ~HasDateBound(last.before))) =>
           /\ last.out.kind \in {"list", "iter", "false"}
           /\ last.out.err = ""
           /\ last.out.items = ExpectedExpansion(last.before, Given)
           /\ last.out.kind = "false" <=> ExpectedExpansion(last.before, Given) = <<>>

\* Under todo=True, a SUMMARY filter that fails, an alarm range and a
\* window that is over before the event starts, the event that does not
\* recur is returned.
ExpandOnlyRuleWitness ==
    /\ ExpandOnlyCalled /\ last.before.expand
    /\ Given = <<PlainEvent>>
    /\ last.before.todo = "True" /\ last.before.filters # <<>>
    /\ last.before.alarm_start.k # "none"
    /\ last.before.end.k # "none" /\ BoundAt(last.before.end) < PlainEvent.dtstart.v
    /\ last.out.items = <<PlainEvent>>

(***************************************************************************)
(* Registration of property filters.                                       *)
(***************************************************************************)
\* The last call was add_property_filter.
Registering == last.op = "add_property_filter"

\* The filter registered for a key, if any.
Registered(s, key) == {s.filters[i] : i \in {i \in 1..Len(s.filters) : s.filters[i].key = key}}

\* The keys with a filter.
FilterKeys(s) == {s.filters[i].key : i \in 1..Len(s.filters)}

\* The expected value stored with a filter.
StoredValue(f) == <<f.text, f.names>>

(***************************************************************************)
(* C21.  add_property_filter with an operator other than "contains",       *)
(* "undef" and "==" raises and leaves every filter of the Searcher as it   *)
(* was, so that check_component answers afterwards as it did before the    *)
(* call; with "undef" it records the operator for the key and stores no    *)
(* expected value: a new key has none, a known key keeps what it had.      *)
(***************************************************************************)
UnsupportedOperatorRule ==
    /\ (Registering /\ last.filter.op \notin Operators) =>
           /\ last.out.kind = "raise"
           /\ searcher.filters = last.before.filters
           /\ \A input \in PropInputs :
                  CheckComponent(searcher, input, FALSE).out
                      = CheckComponent(last.before, input, FALSE).out
    /\ (Registering /\ last.filter.op = "undef") =>
           /\ last.out.kind # "raise"
           /\ FilterKeys(searcher) = FilterKeys(last.before) \cup {last.filter.key}
           /\ \A f \in Registered(searcher, last.filter.key) :
                  /\ f.op = "undef"
                  /\ IF last.filter.key \in FilterKeys(last.before)
                     THEN \A g \in Registered(last.before, last.filter.key) :
                              StoredValue(f) = StoredValue(g)
                     ELSE StoredValue(f) = <<NoText, {}>>
           /\ \A k \in FilterKeys(last.before) \ {last.filter.key} :
                  Registered(searcher, k) = Registered(last.before, k)

\* "!=" is turned down by a Searcher that holds a filter already, and the
\* filter is still the only one.
UnsupportedOperatorRuleWitness ==
    /\ Registering /\ last.filter.op = "!="
    /\ last.out.kind = "raise"
    /\ Len(last.before.filters) = 1 /\ Len(searcher.filters) = 1

(***************************************************************************)
(* The list methods.                                                       *)
(***************************************************************************)
\* check_component matches the input under the Searcher.
Matches(s, input) == TruthyOutcome(CheckComponent(s, input, FALSE).out)

\* The inputs of a list that match, in the order of the list.
MatchingOf(s, components) == SelectSeq(components, LAMBDA x : Matches(s, x))

(***************************************************************************)
(* C22.  filter(components) returns the list of the inputs that            *)
(* check_component matches, in the order they were given (the empty list   *)
(* when none matches or none was given).                                   *)
(***************************************************************************)
FilterRule ==
    last.op = "filter" =>
        /\ last.out.kind = "list"
        /\ last.out.items = MatchingOf(last.before, last.list)

(***************************************************************************)
(* Order of sorting values.                                                *)
(***************************************************************************)
RECURSIVE BytesLess(_, _)
\* a < b on two bytes values.
BytesLess(a, b) ==
    IF b = <<>> THEN FALSE
    ELSE IF a = <<>> THEN TRUE
    ELSE IF Head(a) # Head(b) THEN Head(a) < Head(b)
    ELSE BytesLess(Tail(a), Tail(b))

Numeric(val) == val.t \in {"int", "bool"}

\* Python orders the two values: both text, both bytes, or both numbers.
Comparable(a, b) == a.t = b.t \/ (Numeric(a) /\ Numeric(b))

\* The order of two values: "lt", "eq", "gt", or "TypeError".
Order(a, b) ==
    IF ~Comparable(a, b) THEN "TypeError"
    ELSE IF a.t = "str"
         THEN (IF TextLess(a.v, b.v) THEN "lt" ELSE IF TextLess(b.v, a.v) THEN "gt" ELSE "eq")
    ELSE IF a.t = "bytes"
         THEN (IF BytesLess(a.v, b.v) THEN "lt" ELSE IF BytesLess(b.v, a.v) THEN "gt" ELSE "eq")
    ELSE IF a.n < b.n THEN "lt" ELSE IF b.n < a.n THEN "gt" ELSE "eq"

RECURSIVE ListOrder(_, _)
\* The order of two sorting values of one length: that of the first
\* position where they differ.
ListOrder(x, y) ==
    IF x = <<>> THEN "eq"
    ELSE IF Order(Head(x), Head(y)) # "eq" THEN Order(Head(x), Head(y))
    ELSE ListOrder(Tail(x), Tail(y))

\* The sorting value of an input of a list.
ValueOf(s, input) == SortingValue(s, input, last.now).items

\* A list is a stable sorting of another: a rearrangement of its
\* positions that never puts a larger value before a smaller one and
\* keeps inputs of equal value in their order.
StablySorted(s, components, result) ==
    /\ Len(result) = Len(components)
    /\ \E perm \in [1..Len(components) -> 1..Len(components)] :
           /\ \A i, j \in 1..Len(components) : i # j => perm[i] # perm[j]
           /\ \A i \in 1..Len(components) : result[i] = components[perm[i]]
           /\ \A i, j \in 1..Len(components) :
                  i < j => \/ ListOrder(ValueOf(s, result[i]), ValueOf(s, result[j])) = "lt"
                           \/ /\ ListOrder(ValueOf(s, result[i]), ValueOf(s, result[j])) = "eq"
                              /\ perm[i] < perm[j]

(***************************************************************************)
(* C23.  sort(components) returns a stable sorting of the list by          *)
(* sorting_value (so that sorting the result again gives the result), and  *)
(* the list in the order given when no sort key is registered.             *)
(***************************************************************************)
SortRule ==
    last.op = "sort" =>
        /\ last.out.kind = "list"
        /\ StablySorted(last.before, last.list, last.out.items)
        /\ last.before.sort_keys = <<>> => last.out.items = last.list

(***************************************************************************)
(* Reversed sort keys.                                                     *)
(***************************************************************************)
\* The last call was sorting_value, and it returned a value.
Valued == last.op = "sorting_value" /\ last.out.kind = "value"

\* The inputs sorting_value returns a value for.
Sortable == {input \in SortInputs : WithoutTimezones(Unwrap(input)) # <<>>}

Opposite(o) == CASE o = "lt" -> "gt" [] o = "gt" -> "lt" [] OTHER -> o

\* The Searcher with its i-th sort key registered without reverse.
Forward(s, i) == [s EXCEPT !.sort_keys[i].reverse = FALSE]

\* The value of the i-th sort key of an input.
KeyValue(s, input, i) == SortingValue(s, input, last.now).items[i]

\* Under the i-th key the two inputs are ordered the other way round than
\* under the same key without reverse.
OppositeAt(s, i, x, y) ==
    Order(KeyValue(s, x, i), KeyValue(s, y, i))
        = Opposite(Order(KeyValue(Forward(s, i), x, i), KeyValue(Forward(s, i), y, i)))

(***************************************************************************)
(* C24.  The value sorting_value gives for a sort key registered with      *)
(* reverse orders every two components the other way round than the value  *)
(* for the key without reverse, wherever the latter orders them: numbers,  *)
(* texts (one being a prefix of the other included), components without    *)
(* the property, and the computed keys.                                    *)
(***************************************************************************)
ReverseRule ==
    Valued =>
        \A i \in 1..Len(last.before.sort_keys), other \in Sortable :
            (/\ last.before.sort_keys[i].reverse
             /\ Order(KeyValue(Forward(last.before, i), last.input, i),
                      KeyValue(Forward(last.before, i), other, i)) # "TypeError")
                => OppositeAt(last.before, i, last.input, other)

(***************************************************************************)
(* C30.  Whatever the sort keys, the sorting values of two components can  *)
(* be compared position by position: at every position the two values     *)
(* are of one type (text, bytes or number), be the property present or     *)
(* missing, the key reversed or not, collated or not.                      *)
(***************************************************************************)
SortingValuesComparable ==
    Valued =>
        \A i \in 1..Len(last.before.sort_keys), other \in Sortable :
            Comparable(KeyValue(last.before, last.input, i),
                       KeyValue(last.before, other, i))

(***************************************************************************)
(* What check_component writes to the Searcher.                            *)
(***************************************************************************)
\* The last call was check_component.
Checking == last.op = "check_component"

\* The flags and maps of two Searchers are the same.
SameSettings(s, t) ==
    /\ s.todo = t.todo /\ s.event = t.event /\ s.journal = t.journal
    /\ s.include_completed = t.include_completed
    /\ s.expand = t.expand
    /\ s.filters = t.filters /\ s.sort_keys = t.sort_keys

\* A bound after a call is the bound before it, or the same instant in
\* normalized form.
SameInstant(after, before) == after = before \/ after = NormalizeBound(before)

SameBounds(s, t) ==
    /\ SameInstant(s.start, t.start) /\ SameInstant(s.end, t.end)
    /\ SameInstant(s.alarm_start, t.alarm_start)
    /\ SameInstant(s.alarm_end, t.alarm_end)

(***************************************************************************)
(* C25.  check_component writes to no field of the Searcher but start,     *)
(* end, alarm_start and alarm_end, and to those only the normalized form   *)
(* of the instant they hold: the kind flags, include_completed, expand,    *)
(* the filters and the sort keys are after the call what they were before  *)
(* it, an unset flag still unset.                                          *)
(***************************************************************************)
CheckComponentFrame ==
    Checking => SameSettings(searcher, last.before) /\ SameBounds(searcher, last.before)

(***************************************************************************)
(* C26.  A Searcher is reused: a check_component call leaves the outcome   *)
(* of every later call what it was, so that after any number of calls a    *)
(* component is answered as by the Searcher fresh from its construction.   *)
(* In particular a call on a Searcher without time bounds leaves start     *)
(* and end unset, and the range is still not evaluated afterwards.         *)
(***************************************************************************)
ReuseRule ==
    Checking =>
        /\ \A input \in ReuseInputs, eo \in BOOLEAN :
               CheckComponent(searcher, input, eo).out
                   = CheckComponent(last.before, input, eo).out
        /\ ~HasRange(last.before) => ~HasRange(searcher)

(***************************************************************************)
(* C27.  Range evaluation raises for an event without a start and for      *)
(* nothing else: on every task and journal, a task whose only timestamp    *)
(* is COMPLETED or CREATED included, and under every setting of the        *)
(* bounds it answers True or False; and check_component on an event        *)
(* without a start raises exactly when a time bound is set.                *)
(***************************************************************************)
RangeRaisesForEventsOnly ==
    /\ (last.op = "_check_range" /\ last.comp.name \in {"VTODO", "VJOURNAL"}) =>
           last.out.kind \in {"True", "False"}
    /\ (Matching /\ OneGiven /\ Given[1].name = "VEVENT" /\ Given[1].dtstart.k = "none") =>
           (last.out.kind = "raise" <=> HasRange(last.before))

(***************************************************************************)
(* C29.  A relative trigger counts from the end of the component when      *)
(* RELATED=END and the end is known, otherwise from its start when the     *)
(* start is known; an alarm with nothing to count from is passed over (no  *)
(* match from it, no error, and the alarms after it are still looked at).  *)
(* An absolute trigger is the fire time itself.                            *)
(***************************************************************************)
\* The component of the last _check_alarm_range call has one alarm, which
\* does not repeat, with a trigger of the given kind.
OneAlarm(kinds) ==
    /\ AlarmChecked /\ Len(last.comp.alarms) = 1
    /\ ~Repeats(last.comp.alarms[1])
    /\ last.comp.alarms[1].trigger.k \in kinds

EndKnown(c) == CompEnd(c).k # "none"
StartKnown(c) == CompStart(c).k # "none"

\* The alarm counts from the end.
FromEnd(c, a) == a.related = "END" /\ EndKnown(c)

\* The call answered True exactly when t passes the window test.
AnsweredBy(t) == last.out.kind = "True" <=> InAlarmWindow(last.before, t)

FirstOfInput == Unwrap(last.input)[1]

UndefKeys(s) ==
    {s.filters[i].key : i \in {i \in 1..Len(s.filters) : s.filters[i].op = "undef"}}

IsNotUndef(f) == f.op # "undef"

\* The Searcher with its "undef" filters taken away.
WithoutUndef(s) == [s EXCEPT !.filters = SelectSeq(s.filters, IsNotUndef)]

\* The last call was check_component, with filtering, on a recurring master
\* that lacks every property an "undef" filter names and passes the filters.
UndefOnMaster ==
    /\ last.op = "check_component" /\ ~last.eo
    /\ Unwrap(last.input) # <<>> /\ HasRRule(FirstOfInput)
    /\ UndefKeys(last.before) # {}
    /\ \A key \in UndefKeys(last.before) : ~PropPresent(FirstOfInput, key)
    /\ CheckPropertyFilters(last.before, FirstOfInput, FALSE)

UndefBypassRule ==
    UndefOnMaster =>
        last.out = CheckComponent(WithoutUndef(last.before), last.input, FALSE).out

====
